---- MODULE Spec2Model ----
(***************************************************************************)
(* A model of the evolutionary puzzle solver of src/evol-puzzle.cpp: the  *)
(* tile and puzzle operations, the two crossover operators, mutation,     *)
(* selection, replacement and the evolve driver.                          *)
(*                                                                         *)
(* Arrays keep the indices of the C++ code: a tile is a function on       *)
(* 0..TILE_SIZE-1, a puzzle a function on 0..TILES_IN_PUZZLE_COUNT-1, a   *)
(* population a function on 0..POPULATION_SIZE-1.                         *)
(***************************************************************************)
EXTENDS Integers, Sequences, FiniteSets, TLC

VARIABLES
    \* --- shared by the unit harnesses
    calls,              \* number of calls of the operation under test made so far
    \* --- unit harness of rotateToLeftByOneIndex (test.cpp 26-35)
    arr,                \* the tile being rotated
    arr_in,             \* the tile before any call
    \* --- unit harness of swapTile / countEdgeMismatch (test.cpp 74-92)
    puzzle,             \* the puzzle operated on
    copy_puzzle,        \* its content before the call
    swap_first,         \* the first_index swapTile chose  (-1: no call yet)
    swap_second,        \* the second_index swapTile chose (-1: no call yet)
    edge_mismatch_count, \* the value countEdgeMismatch(puzzle) returned (pc = "counted")
    file,               \* Ass1Input.txt as readInput finds it: missing, or its tokens
    \* --- unit harness of twoPointCrossover / orderCrossover
    offspring1,
    offspring2,
    parent1,            \* offspring1 before the first call
    parent2,            \* offspring2 before the first call
    points,             \* sequence of the (crossover_point1, crossover_point2) returned per call
    \* --- built once from the input puzzle in main
    duplicatesMap,      \* recordDuplicateTiles(puzzle)
    map_of_tiles,       \* buildMapOfTiles(puzzle)
    \* --- main and the evolve driver
    pc,                 \* position inside main/evolve ("unit" and the call's outcome in a harness)
    NUM_OF_GENERATIONS, \* the generation budget read by main
    population_arr,
    offspring_arr,
    random,             \* evolve's generator (refreshed every generation)
    min_edge_mismatch_count,
    generations_performed,
    stagnated_generation_count,
    mutation_rate,
    last_gen_best_edge_mismatch,
    best_puzzle_so_far, \* a pointer: OwnAllocation, or the index of the population
                        \* slot it points to (line 757 assigns the pointer)
    sorted_index_by_fitness_vec,
    parent_index_vec,
    worst_index_vec

tileVars == <<arr, arr_in>>
puzzleVars == <<puzzle, copy_puzzle, swap_first, swap_second, edge_mismatch_count, file>>
crossVars == <<offspring1, offspring2, parent1, parent2, points>>
mapVars == <<duplicatesMap, map_of_tiles>>
popVars == <<population_arr, offspring_arr>>
scalarVars == <<NUM_OF_GENERATIONS, min_edge_mismatch_count, generations_performed,
                stagnated_generation_count, mutation_rate, last_gen_best_edge_mismatch,
                best_puzzle_so_far>>
rankVars == <<sorted_index_by_fitness_vec, parent_index_vec, worst_index_vec>>
evolveVars == <<popVars, random, scalarVars, rankVars>>

vars == <<calls, pc, tileVars, puzzleVars, crossVars, mapVars, evolveVars>>

----------------------------------------------------------------------------
(* Program constants.                                                      *)

TILE_SIZE == 4
TILES_IN_PUZZLE_COUNT == 64
ROW_LENGTH == 8
MAX_MOTIF == 6

\* Line 736: best_puzzle_so_far = allocatePuzzle(), a puzzle outside the population.
OwnAllocation == -1

TileIdx == 0 .. TILE_SIZE - 1
PuzzleIdx == 0 .. TILES_IN_PUZZLE_COUNT - 1
Motifs == 0 .. MAX_MOTIF
Tiles == [TileIdx -> Motifs]

Tile(a, b, c, d) == [i \in TileIdx |-> CASE i = 0 -> a [] i = 1 -> b [] i = 2 -> c [] OTHER -> d]

----------------------------------------------------------------------------
(* Loops.  A C++ loop is modelled by the operator for one iteration (its   *)
(* body) and one of these two drivers.  The drivers split the iteration    *)
(* range in halves so that the evaluation depth stays logarithmic, and     *)
(* bind every intermediate state to a variable so that it is computed once. *)

\* for (i = lo; i < hi; i++) st = Step(st, i)
RECURSIVE ForLoop(_, _, _, _)
ForLoop(Step(_, _), st, lo, hi) ==
    IF hi <= lo THEN st
    ELSE IF hi = lo + 1 THEN Step(st, lo)
    ELSE LET mid == (lo + hi) \div 2
             s1 == ForLoop(Step, st, lo, mid)
         IN  IF s1 = s1 THEN ForLoop(Step, s1, mid, hi) ELSE s1

\* while (!Done(st)) st = Step(st), cut after n iterations
RECURSIVE WhileLoop(_, _, _, _)
WhileLoop(Done(_), Step(_), st, n) ==
    IF n = 0 \/ Done(st) THEN st
    ELSE IF n = 1 THEN Step(st)
    ELSE LET s1 == WhileLoop(Done, Step, st, n \div 2)
         IN  IF Done(s1) THEN s1 ELSE WhileLoop(Done, Step, s1, n - (n \div 2))

----------------------------------------------------------------------------
(* Tile operations.                                                        *)

\* A rotation whose loop stops one element early: arr[2] keeps its old value.
rotateShortLoop(t) ==
    [i \in TileIdx |-> IF i < TILE_SIZE - 2 THEN t[i + 1]
                       ELSE IF i = TILE_SIZE - 1 THEN t[0] ELSE t[i]]

\* A rotation in the wrong direction (to the right).
rotateToRight(t) ==
    [i \in TileIdx |-> IF i = 0 THEN t[TILE_SIZE - 1] ELSE t[i - 1]]

\* temp = arr[0]; arr[i] = arr[i+1] for i = 0..TILE_SIZE-2 (ascending, so each
\* arr[i+1] read is still the old value); arr[TILE_SIZE-1] = temp.
rotateToLeftByOneIndex(t) ==
    [i \in TileIdx |-> IF i < TILE_SIZE - 1 THEN t[i + 1] ELSE t[0]]

\* rotateToLeftByOneIndexReturn rotates its argument in place and returns it: the
\* j-th call on the same vector yields the tile rotated j times.
RECURSIVE rotateTimes(_, _)
rotateTimes(t, n) == IF n = 0 THEN t ELSE rotateTimes(rotateToLeftByOneIndex(t), n - 1)

----------------------------------------------------------------------------
(* Strings: std::to_string and convertTileToString.                        *)

DigitChar == <<"0", "1", "2", "3", "4", "5", "6", "7", "8", "9">>

RECURSIVE to_string(_)
to_string(n) ==
    IF n < 0 THEN "-" \o to_string(-n)
    ELSE IF n < 10 THEN DigitChar[n + 1]
    ELSE to_string(n \div 10) \o DigitChar[(n % 10) + 1]

\* result += to_string(arr[i]) for i = 0..TILE_SIZE-1
convertTileToString(t) ==
    LET Step(result, i) == result \o to_string(t[i])
    IN  ForLoop(Step, "", 0, TILE_SIZE)

----------------------------------------------------------------------------
(* Maps (std::unordered_map) are functions; find(k) != end() is k \in DOMAIN. *)

EmptyMap == <<>>

MapPut(m, k, v) == IF k \in DOMAIN m THEN [m EXCEPT ![k] = v] ELSE (k :> v) @@ m

\* tile_rotations_vec of recordDuplicateTiles / isTileInMap: the signatures of the
\* tile rotated 0, 1, 2, 3 times.
tile_rotations_vec(t) == [j \in TileIdx |-> convertTileToString(rotateTimes(t, j))]

\* A search that looks the tile up in its given orientation only.
hitKeyFirstOnly(m, rots) == IF rots[0] \in DOMAIN m THEN rots[0] ELSE ""

\* Lines 138-143: for j = 0..3, if the j-th rotation is a key, hit_key = it (there is
\* no break: the last hit wins).
hitKey(m, rots) ==
    LET Step(hit_key, j) == IF rots[j] \in DOMAIN m THEN rots[j] ELSE hit_key
    IN  ForLoop(Step, "", 0, TILE_SIZE)

\* One iteration of recordDuplicateTiles' loop over the tiles (lines 129-150).
recordTile(m, t) ==
    LET rots == tile_rotations_vec(t)
        hit_key == hitKey(m, rots)
    IN  IF hit_key = "" THEN MapPut(m, rots[0], 1)
        ELSE MapPut(m, hit_key, m[hit_key] + 1)

recordDuplicateTiles(p) ==
    LET Step(m, i) == recordTile(m, p[i])
    IN  ForLoop(Step, EmptyMap, 0, TILES_IN_PUZZLE_COUNT)

\* An iteration that maps the signature of each rotation to that rotation's own
\* signature.
mapTileOwnSignature(m, t) ==
    LET id_tile == convertTileToString(t)
        Step(mm, j) == MapPut(mm, convertTileToString(rotateTimes(t, j)),
                              convertTileToString(rotateTimes(t, j)))
    IN  IF id_tile \in DOMAIN m THEN m
        ELSE ForLoop(Step, MapPut(m, id_tile, id_tile), 1, TILE_SIZE)

\* One iteration of buildMapOfTiles' loop (lines 180-189): a tile whose signature is
\* not yet a key maps its signature and those of its three rotations to its signature.
mapTile(m, t) ==
    LET id_tile == convertTileToString(t)
        Step(mm, j) == MapPut(mm, convertTileToString(rotateTimes(t, j)), id_tile)
    IN  IF id_tile \in DOMAIN m THEN m
        ELSE ForLoop(Step, MapPut(m, id_tile, id_tile), 1, TILE_SIZE)

buildMapOfTiles(p) ==
    LET Step(m, i) == mapTile(m, p[i])
    IN  ForLoop(Step, EmptyMap, 0, TILES_IN_PUZZLE_COUNT)

\* isTileInMap(const unordered_map<string,int>&, string): <<found, key>>
isTileInMap(map_to_search, tile) ==
    IF tile \in DOMAIN map_to_search THEN <<TRUE, tile>> ELSE <<FALSE, "">>

\* isTileInMap(const unordered_map<string,string>&, string): <<found, value>>
isTileInMapValue(map_to_search, tile) ==
    IF tile \in DOMAIN map_to_search THEN <<TRUE, map_to_search[tile]>> ELSE <<FALSE, "">>

----------------------------------------------------------------------------
(* Fitness.                                                                *)

\* The left-edge loop without the column-0 skip: cell i is compared with cell i-1
\* across row ends too.
leftMismatchNoSkip(p, i) ==
    IF i = 0 THEN 0 ELSE IF p[i][3] # p[i - 1][1] THEN 1 ELSE 0

\* One iteration of the left-edge loop: 1 when cell i adds a mismatch.
leftMismatchAt(p, i) ==
    IF i % ROW_LENGTH = 0 THEN 0
    ELSE IF p[i][3] # p[i - 1][1] THEN 1 ELSE 0

\* One iteration of the top-edge loop.
topMismatchAt(p, i) ==
    IF p[i][0] # p[i - ROW_LENGTH][2] THEN 1 ELSE 0

countEdgeMismatch(p) ==
    LET LeftStep(edge_mismatch, i) == edge_mismatch + leftMismatchAt(p, i)
        TopStep(edge_mismatch, i) == edge_mismatch + topMismatchAt(p, i)
    IN  ForLoop(TopStep, ForLoop(LeftStep, 0, 0, TILES_IN_PUZZLE_COUNT),
                ROW_LENGTH, TILES_IN_PUZZLE_COUNT)

----------------------------------------------------------------------------
(* The random source: pair<mt19937, uniform_int_distribution<int>>(0, 63). *)
(* A generator state determines the whole stream of draws that follows it; *)
(* it is modelled by a stream (seq, read cyclically) and a position.  A    *)
(* generator passed by value is a copy: the callee's draws do not advance  *)
(* the caller's position.                                                  *)

Generator(seq) == [seq |-> seq, pos |-> 1]

\* random.second(random.first): the value drawn ...
draw(g) == g.seq[g.pos]

\* ... and the generator state after the draw.
advance(g) == [g EXCEPT !.pos = (g.pos % Len(g.seq)) + 1]

\* The streams a seeded mt19937 can produce are not constant.
IsConstantStream(seq) == \A i \in 1 .. Len(seq) : seq[i] = seq[1]

----------------------------------------------------------------------------
(* swapTile.                                                               *)

\* Lines 324-328: swap_first = draw; swap_second = swap_first;
\* while (swap_second == swap_first) swap_second = draw.
\* <<swap_first, swap_second>> as swapTile chooses them from its copy g of the generator.
swapIndices(g) ==
    LET first_index == draw(g)
        Done(st) == st.second_index # first_index
        Step(st) == [second_index |-> draw(st.g), g |-> advance(st.g)]
        end == WhileLoop(Done, Step, [second_index |-> first_index, g |-> advance(g)],
                         Len(g.seq))
    IN  <<first_index, end.second_index>>

\* A swap that omits temp_tile: the second position receives the already
\* overwritten first position.
swapTileNoTemp(p, g) ==
    LET ix == swapIndices(g)
    IN  [p EXCEPT ![ix[1]] = p[ix[2]]]

\* temp_tile = arr[first]; arr[first] = arr[second]; arr[second] = temp_tile
swapTile(p, g) ==
    LET ix == swapIndices(g)
    IN  [p EXCEPT ![ix[1]] = p[ix[2]], ![ix[2]] = p[ix[1]]]

----------------------------------------------------------------------------
(* Input puzzles.  Ass1Input.txt is not part of the sources; the model runs *)
(* on these 64-tile inputs with motifs 0..6.                               *)

Row(i) == i \div ROW_LENGTH
Col(i) == i % ROW_LENGTH

\* Motif on the edge shared by (r, c) and (r, c+1), and by (r, c) and (r+1, c);
\* the outer border carries motif 0.
HEdge(r, c) == IF c < 0 \/ c >= ROW_LENGTH - 1 THEN 0 ELSE 1 + ((r + 2 * c) % 3)
VEdge(r, c) == IF r < 0 \/ r >= ROW_LENGTH - 1 THEN 0 ELSE 4 + ((2 * r + c) % 3)

\* A perfect tiling: every shared edge carries one motif on both sides.
SolvedPuzzle ==
    [i \in PuzzleIdx |->
        Tile(VEdge(Row(i) - 1, Col(i)), HEdge(Row(i), Col(i)),
             VEdge(Row(i), Col(i)), HEdge(Row(i), Col(i) - 1))]

\* The perfect tiling with two interior neighbours exchanged.
NearSolvedPuzzle == [SolvedPuzzle EXCEPT ![9] = SolvedPuzzle[10], ![10] = SolvedPuzzle[9]]

\* The same tiles, permuted (i -> 27 i + 5 mod 64) and rotated i mod 4 times.
ScrambledPuzzle ==
    [i \in PuzzleIdx |->
        rotateTimes(SolvedPuzzle[(27 * i + 5) % TILES_IN_PUZZLE_COUNT], i % TILE_SIZE)]

\* Every tile carries one motif on its four edges and differs from its neighbours.
CheckerPuzzle ==
    [i \in PuzzleIdx |-> LET m == 1 + ((Row(i) + Col(i)) % 2) IN Tile(m, m, m, m)]

InputPuzzles == {SolvedPuzzle, NearSolvedPuzzle, ScrambledPuzzle, CheckerPuzzle}

----------------------------------------------------------------------------
(* The crossover operators.                                                *)

Min(a, b) == IF a < b THEN a ELSE b
Max(a, b) == IF a > b THEN a ELSE b

\* A segment swap that copies offspring2's segment into offspring1 and leaves
\* offspring2 as it was (the temp is lost).
twoPointCrossoverNoTemp(o1, o2, g) ==
    LET d1 == draw(g)
        d2 == draw(advance(g))
        crossover_point1 == Min(d1, d2)
        crossover_point2 == Max(d1, d2)
        InSeg(i) == crossover_point1 <= i /\ i <= crossover_point2
    IN  [offspring1 |-> [i \in PuzzleIdx |-> IF InSeg(i) THEN o2[i] ELSE o1[i]],
         offspring2 |-> o2,
         points |-> <<crossover_point1, crossover_point2>>]

\* A segment swap whose loop excludes crossover_point2 (i < crossover_point2).
twoPointCrossoverExclusive(o1, o2, g) ==
    LET d1 == draw(g)
        d2 == draw(advance(g))
        crossover_point1 == Min(d1, d2)
        crossover_point2 == Max(d1, d2)
        InSeg(i) == crossover_point1 <= i /\ i < crossover_point2
    IN  [offspring1 |-> [i \in PuzzleIdx |-> IF InSeg(i) THEN o2[i] ELSE o1[i]],
         offspring2 |-> [i \in PuzzleIdx |-> IF InSeg(i) THEN o1[i] ELSE o2[i]],
         points |-> <<crossover_point1, crossover_point2>>]

\* twoPointCrossover draws from a generator g it seeds itself from the clock;
\* orders the two points; swaps the tiles at crossover_point1..crossover_point2
\* (inclusive); returns the ordered points.
twoPointCrossover(o1, o2, g) ==
    LET d1 == draw(g)
        d2 == draw(advance(g))
        crossover_point1 == IF d1 > d2 THEN d2 ELSE d1
        crossover_point2 == IF d1 > d2 THEN d1 ELSE d2
        InSeg(i) == crossover_point1 <= i /\ i <= crossover_point2
    IN  [offspring1 |-> [i \in PuzzleIdx |-> IF InSeg(i) THEN o2[i] ELSE o1[i]],
         offspring2 |-> [i \in PuzzleIdx |-> IF InSeg(i) THEN o1[i] ELSE o2[i]],
         points |-> <<crossover_point1, crossover_point2>>]

\* m[k] of a std::unordered_map<string,int>: a missing key reads as 0.
MapGet(m, k) == IF k \in DOMAIN m THEN m[k] ELSE 0

\* trackedDuplicates: duplicatesMap with every count set to 0.
zeroCounts(m) == [k \in DOMAIN m |-> 0]

\* A tracking that leaves the segment's tiles uncounted.
trackSegmentNone(tracked, par, mot, cp1, cp2) == tracked

\* Lines 667-680: count, per canonical key, the tiles of par[cp1 .. cp2-1].
trackSegment(tracked, par, mot, cp1, cp2) ==
    LET Step(tr, i) ==
            LET tile_found == isTileInMapValue(mot, convertTileToString(par[i]))
            IN  IF tile_found[1]
                THEN MapPut(tr, tile_found[2], MapGet(tr, tile_found[2]) + 1)
                ELSE tr
    IN  ForLoop(Step, tracked, cp1, cp2)

\* One iteration of a fill loop (lines 685-692) that places the scanned tile
\* without consulting the counts.
fillStepNoCheck(st, par, lookup, dm, mot, count_limit) ==
    [st EXCEPT !.off = [st.off EXCEPT ![st.j] = par[st.i]],
               !.i = (st.i + 1) % TILES_IN_PUZZLE_COUNT,
               !.j = (st.j + 1) % TILES_IN_PUZZLE_COUNT,
               !.count = st.count + 1,
               !.scanned = st.scanned + 1,
               !.status = IF st.count + 1 >= count_limit THEN "ok" ELSE "run"]

\* One iteration of a fill loop (lines 685-692, 698-705) with its increment
\* i = (i + 1) % 64.  st holds the loop's variables: off (the offspring being
\* filled), tracked (the consumed counts), i, j, count; idle counts the iterations
\* since the last placement and scanned all iterations.  map_of_tiles.at and
\* duplicatesMap.at throw on a missing key (status "abort").
fillStep(st, par, lookup, dm, mot, count_limit) ==
    LET sig == convertTileToString(par[st.i])
        tile_found == isTileInMap(lookup, mot[sig])
        k == tile_found[2]
        next_i == (st.i + 1) % TILES_IN_PUZZLE_COUNT
    IN  IF sig \notin DOMAIN mot THEN [st EXCEPT !.status = "abort"]
        ELSE IF k \notin DOMAIN dm THEN [st EXCEPT !.status = "abort"]
        ELSE IF MapGet(st.tracked, k) < dm[k]
        THEN [st EXCEPT !.off = [st.off EXCEPT ![st.j] = par[st.i]],
                        !.tracked = MapPut(st.tracked, k, MapGet(st.tracked, k) + 1),
                        !.i = next_i,
                        !.j = (st.j + 1) % TILES_IN_PUZZLE_COUNT,
                        !.count = st.count + 1,
                        !.idle = 0,
                        !.scanned = st.scanned + 1,
                        !.status = IF st.count + 1 >= count_limit THEN "ok" ELSE "run"]
        ELSE [st EXCEPT !.i = next_i,
                        !.idle = st.idle + 1,
                        !.scanned = st.scanned + 1,
                        !.status = IF st.idle + 1 >= TILES_IN_PUZZLE_COUNT
                                   THEN "hang" ELSE "run"]

\* A fill loop whose scan of the parent starts at cell 0.
fillFromStart(par, off, tracked, lookup, dm, mot, crossover_point2, count_limit) ==
    LET Done(st) == st.status # "run"
        Step(st) == fillStep(st, par, lookup, dm, mot, count_limit)
    IN  WhileLoop(Done, Step,
                  [off |-> off, tracked |-> tracked, i |-> 0,
                   j |-> crossover_point2, count |-> 0, idle |-> 0, scanned |-> 0,
                   status |-> IF 0 < count_limit THEN "run" ELSE "ok"],
                  TILES_IN_PUZZLE_COUNT * TILES_IN_PUZZLE_COUNT)

\* A fill loop (lines 684-694, 697-707): scan par circularly from crossover_point2,
\* writing off from crossover_point2, until count_limit tiles are placed.  A full
\* circle without a placement repeats for ever (status "hang").
fill(par, off, tracked, lookup, dm, mot, crossover_point2, count_limit) ==
    LET Done(st) == st.status # "run"
        Step(st) == fillStep(st, par, lookup, dm, mot, count_limit)
    IN  WhileLoop(Done, Step,
                  [off |-> off, tracked |-> tracked, i |-> crossover_point2,
                   j |-> crossover_point2, count |-> 0, idle |-> 0, scanned |-> 0,
                   status |-> IF 0 < count_limit THEN "run" ELSE "ok"],
                  TILES_IN_PUZZLE_COUNT * TILES_IN_PUZZLE_COUNT)

\* What orderCrossover leaves behind: offspring2 is filled first (lines 684-694), then
\* offspring1 (lines 697-707); a loop that does not end keeps the later one untouched.
crossoverResult(seg1, fill1, fill2, crossover_point1, crossover_point2) ==
    [offspring1 |-> IF fill2.status = "ok" THEN fill1.off ELSE seg1,
     offspring2 |-> fill2.off,
     status |-> IF fill2.status # "ok" THEN fill2.status ELSE fill1.status,
     points |-> <<crossover_point1, crossover_point2>>,
     scanned |-> <<fill1.scanned, fill2.scanned>>,
     placed |-> <<fill1.count, fill2.count>>]

\* orderCrossover(offspring1, offspring2, duplicatesMap, map_of_tiles, random)
orderCrossover(o1, o2, dm, mot, g) ==
    LET par1 == o1
        par2 == o2
        d1 == draw(g)
        d2 == draw(advance(g))
        crossover_point1 == IF d1 > d2 THEN d2 ELSE d1
        crossover_point2 == IF d1 > d2 THEN d1 ELSE d2
        CopyFrom2(off, i) == [off EXCEPT ![i] = par2[i]]
        CopyFrom1(off, i) == [off EXCEPT ![i] = par1[i]]
        seg1 == ForLoop(CopyFrom2, o1, crossover_point1, crossover_point2)
        seg2 == ForLoop(CopyFrom1, o2, crossover_point1, crossover_point2)
        trackedDuplicates1 ==
            trackSegment(zeroCounts(dm), par1, mot, crossover_point1, crossover_point2)
        trackedDuplicates2 ==
            trackSegment(zeroCounts(dm), par2, mot, crossover_point1, crossover_point2)
        count_limit == TILES_IN_PUZZLE_COUNT - (crossover_point2 - crossover_point1)
        fill2 == fill(par2, seg2, trackedDuplicates1, trackedDuplicates2, dm, mot,
                      crossover_point2, count_limit)
        fill1 == fill(par1, seg1, trackedDuplicates2, trackedDuplicates2, dm, mot,
                      crossover_point2, count_limit)
    IN  crossoverResult(seg1, fill1, fill2, crossover_point1, crossover_point2)

----------------------------------------------------------------------------
(* evolve: its constants and its lookup table (lines 725-746).             *)

INT_MAX == 2147483647
MAX_MUTATION_RATE == 32
MAX_MISMATCH == 112

POPULATION_SIZE == 4       \* the population size main reads
StagnationBase == 3        \* stands for the 1000 of line 728 (see stagnation_threshold)

PopIdx == 0 .. POPULATION_SIZE - 1

\* Line 729.  With the program's 1000 the threshold is 10 for every population of
\* more than 1000 individuals; StagnationBase < POPULATION_SIZE gives that value.
stagnationThresholdFor(base, population_size) ==
    Max(10, (base \div population_size) * base)

stagnation_threshold == stagnationThresholdFor(StagnationBase, POPULATION_SIZE)

STAGNATION_BASE == 1000    \* line 728: the program's initial stagnation_threshold

\* Lines 733-735: int(POPULATION_SIZE * 0.25f), made even by adding one.
ratioAdjustedPopSizeRounded(population_size) ==
    LET rounded == (population_size * 25 + 50) \div 100
    IN  IF rounded % 2 = 0 THEN rounded ELSE rounded + 1

ratioAdjustedPopSizeOdd(population_size) == (population_size * 25) \div 100

ratioAdjustedPopSizeFor(population_size) ==
    LET truncated == (population_size * 25) \div 100
    IN  IF truncated % 2 = 0 THEN truncated ELSE truncated + 1

ratio_adjusted_pop_size == ratioAdjustedPopSizeFor(POPULATION_SIZE)

OffIdx == 0 .. ratio_adjusted_pop_size - 1

RECURSIVE BitLength(_)
BitLength(n) == IF n = 0 THEN 0 ELSE 1 + BitLength(n \div 2)

\* Single-precision rounding of a non-negative integer: keep 24 significant bits,
\* round to nearest, ties to even.
RoundToFloat(n) ==
    LET s == BitLength(n) - 24
        q == n \div 2^s
        r == n % 2^s
    IN  IF s <= 0 THEN n
        ELSE IF r > 2^(s - 1) \/ (r = 2^(s - 1) /\ q % 2 = 1) THEN (q + 1) * 2^s
        ELSE q * 2^s

\* Line 743: the float 1.0f / MAX_MISMATCH, in units of 2^-30 (a 24-bit value).
inverse_max_mismatch == RoundToFloat((2^30 + MAX_MISMATCH \div 2) \div MAX_MISMATCH)

\* Line 745: max(3, (int)(i * inverse_max_mismatch * MAX_MUTATION_RATE)).  The product
\* with i is rounded to a float; the product with 32, a power of two, is exact; the
\* conversion to int truncates.
mutation_rate_lut ==
    [i \in 0 .. MAX_MISMATCH - 1 |->
        Max(3, RoundToFloat(i * inverse_max_mismatch) \div (2^30 \div MAX_MUTATION_RATE))]

----------------------------------------------------------------------------
(* generatePopulation (lines 492-523).  The loop over the individuals runs *)
(* sequentially: the build commands of the README do not enable OpenMP.    *)

\* One iteration of the inner loop with a swap that keeps no temporary copy of the
\* first tile.
perturbStepNoTemp(arr_copy, j, g) ==
    LET swapped == swapTileNoTemp(arr_copy, g)
    IN  [swapped EXCEPT ![j] = rotateToLeftByOneIndex(swapped[j])]

\* The generator g after n draws.
advanceTimes(g, n) == [g EXCEPT !.pos = ((g.pos - 1 + n) % Len(g.seq)) + 1]

\* One iteration of the inner loop in which swapTile draws from the caller's
\* generator itself: every call sees the state the calls before left.
perturbStepSharedGenerator(arr_copy, j, g) ==
    LET swapped == swapTile(arr_copy, advanceTimes(g, 2 * j))
    IN  [swapped EXCEPT ![j] = rotateToLeftByOneIndex(swapped[j])]

\* One iteration of the inner loop (lines 511-512).  swapTile receives a copy of
\* the generator: every call draws the same indices.
perturbStep(arr_copy, j, g) ==
    LET swapped == swapTile(arr_copy, g)
    IN  [swapped EXCEPT ![j] = rotateToLeftByOneIndex(swapped[j])]

\* A seeding that perturbs individual 0 as well: no individual keeps the base.
generatePopulationNoBase(pop, src_arr, population_size, g) ==
    LET Perturb(arr_copy, j) == perturbStep(arr_copy, j, g)
        Individual(st, i) ==
            LET arr_copy == ForLoop(Perturb, st.arr_copy, 0, TILES_IN_PUZZLE_COUNT \div 2)
            IN  [arr_copy |-> arr_copy, pop |-> [st.pop EXCEPT ![i] = arr_copy]]
    IN  ForLoop(Individual, [arr_copy |-> src_arr, pop |-> pop], 0, population_size).pop

generatePopulation(pop, src_arr, population_size, g) ==
    LET Perturb(arr_copy, j) == perturbStep(arr_copy, j, g)
        Individual(st, i) ==
            LET arr_copy == ForLoop(Perturb, st.arr_copy, 0, TILES_IN_PUZZLE_COUNT \div 2)
            IN  [arr_copy |-> arr_copy, pop |-> [st.pop EXCEPT ![i] = arr_copy]]
    IN  ForLoop(Individual, [arr_copy |-> src_arr, pop |-> [pop EXCEPT ![0] = src_arr]],
                1, population_size).pop

----------------------------------------------------------------------------
(* evaluateFitness, selectParentsAndWorst, crossover, mutate,              *)
(* selectSurvivorsAndReplace (lines 831-964).                              *)

\* Lines 903-905: the vector of <index, edgeMismatchCount> before the sort.
fitnessPairs(pop) == [i \in PopIdx |-> [first |-> i, second |-> countEdgeMismatch(pop[i])]]

IsDescending(vec) == \A i, j \in DOMAIN vec : i < j => vec[i].second >= vec[j].second

\* Lines 907-909: std::sort by descending mismatch count.  The order of elements
\* with equal counts is unspecified: every arrangement in descending order is an
\* outcome.
evaluateFitness(pop) ==
    LET vec == fitnessPairs(pop)
        sorted == {[i \in PopIdx |-> vec[f[i]]] : f \in Permutations(PopIdx)}
    IN  {v \in sorted : IsDescending(v)}

back(vec) == vec[POPULATION_SIZE - 1]

\* selectParentsAndWorst: <<parents_index_vec, worst_index_vec>>
selectParentsAndWorstOf(population_size, sorted_vec, ratio) ==
    LET starting_point_parents == population_size - ratio
    IN  <<[i \in 0 .. ratio - 1 |-> sorted_vec[starting_point_parents + i].first],
          [i \in 0 .. ratio - 1 |-> sorted_vec[i].first]>>

selectParentsAndWorst(sorted_vec, ratio) ==
    selectParentsAndWorstOf(POPULATION_SIZE, sorted_vec, ratio)

\* Lines 868-876: offspring_arr[i] and offspring_arr[size - i - 1] are the pair's
\* two offspring; a crossover that does not return leaves the array as it was.
storeOffspring(st, i, size, r) ==
    IF r.status # "ok" THEN [st EXCEPT !.status = r.status]
    ELSE [st EXCEPT !.off = [st.off EXCEPT ![i] = r.offspring1,
                                           ![size - i - 1] = r.offspring2]]

\* Line 861: parent_index_vec.size()
parentIndexVecSize(parents) == Cardinality(DOMAIN parents)

\* A pairing of neighbours: parent i with parent i + 1.
crossoverPairNeighbours(st, i, pop, parents, dm, mot, best_mismatch, g) ==
    LET size == parentIndexVecSize(parents)
        o1 == pop[parents[i]]
        o2 == pop[parents[(i + 1) % size]]
        r == IF best_mismatch <= 10 THEN orderCrossover(o1, o2, dm, mot, g)
             ELSE [offspring1 |-> o1, offspring2 |-> o2, status |-> "ok"]
    IN  IF st.status # "ok" \/ i % 2 = 1 \/ i + 1 >= size THEN st
        ELSE storeOffspring(st, i, size, r)

\* One iteration of crossover's loop (lines 867-877) for an even i.
crossoverPair(st, i, pop, parents, dm, mot, best_mismatch, g) ==
    LET size == parentIndexVecSize(parents)
        o1 == pop[parents[i]]
        o2 == pop[parents[size - i - 1]]
        r == IF best_mismatch <= 10 THEN orderCrossover(o1, o2, dm, mot, g)
             ELSE [offspring1 |-> o1, offspring2 |-> o2, status |-> "ok"]
    IN  IF st.status # "ok" \/ i % 2 = 1 \/ i + 1 >= size THEN st
        ELSE storeOffspring(st, i, size, r)

\* crossover: [off |-> offspring_arr afterwards, status |-> "ok", "hang" or "abort"]
crossover(pop, parents, off, dm, mot, best_mismatch, g) ==
    LET Step(st, i) == crossoverPair(st, i, pop, parents, dm, mot, best_mismatch, g)
    IN  ForLoop(Step, [off |-> off, status |-> "ok"], 0, parentIndexVecSize(parents))

\* One iteration of mutate's inner loop whose swap keeps no temporary copy of the
\* first tile.
mutateStepNoTemp(st, j) ==
    IF j % 2 = 0 THEN [st EXCEPT !.puz = swapTileNoTemp(st.puz, st.g)]
    ELSE [puz |-> [st.puz EXCEPT ![draw(st.g)] = rotateToLeftByOneIndex(st.puz[draw(st.g)])],
          g |-> advance(st.g)]

\* One iteration of mutate's inner loop (lines 839-843): swapTile works on a copy
\* of the generator, the rotation draws its index from mutate's own generator.
mutateStep(st, j) ==
    IF j % 2 = 0 THEN [st EXCEPT !.puz = swapTile(st.puz, st.g)]
    ELSE [puz |-> [st.puz EXCEPT ![draw(st.g)] = rotateToLeftByOneIndex(st.puz[draw(st.g)])],
          g |-> advance(st.g)]

\* One iteration of mutate's outer loop (lines 837-845).  A remainder by zero
\* ends the program.
mutateOne(st, i, rate) ==
    LET num_iterations == draw(st.g) % (IF rate < 0 THEN -rate ELSE rate)
        inner == ForLoop(mutateStep, [puz |-> st.off[i], g |-> advance(st.g)],
                         0, num_iterations)
    IN  IF st.status # "ok" THEN st
        ELSE IF rate = 0 THEN [st EXCEPT !.status = "abort"]
        ELSE [off |-> [st.off EXCEPT ![i] = inner.puz], g |-> inner.g, status |-> "ok"]

\* mutate(offspring_arr, ratio_adjusted_pop_size, random, mutation_rate)
mutate(off, size, g, rate) ==
    LET Step(st, i) == mutateOne(st, i, rate)
    IN  ForLoop(Step, [off |-> off, g |-> g, status |-> "ok"], 0, size)

\* A replacement that overwrites the first slots of the population.
selectSurvivorsAndReplaceFirst(pop, worst, off) ==
    LET Step(p, i) == [p EXCEPT ![i] = off[i]]
    IN  ForLoop(Step, pop, 0, ratio_adjusted_pop_size)

selectSurvivorsAndReplace(pop, worst, off) ==
    LET Step(p, i) == [p EXCEPT ![worst[i]] = off[i]]
    IN  ForLoop(Step, pop, 0, ratio_adjusted_pop_size)

----------------------------------------------------------------------------
(* Bounds of the unit harnesses.                                           *)

MaxRotations == 4          \* calls of rotateToLeftByOneIndex on one tile
NumSamplePoints == 4       \* crossover points drawn by a repeated twoPointCrossover call

NotUsed == <<>>

\* Every generator state the first two draws of which are a, b.
AllGenerators == {Generator(<<a, b>>) : a, b \in PuzzleIdx}

\* swapTile loops until a draw differs from the first.
SwapGenerators == {g \in AllGenerators : ~IsConstantStream(g.seq)}

\* Sample points 0, 21, 42, 63, ... spread over the puzzle.
SamplePoints == {(21 * k) % TILES_IN_PUZZLE_COUNT : k \in 0 .. NumSamplePoints - 1}

\* A second arrangement of the tiles of SolvedPuzzle.
ScrambledPuzzle2 ==
    [i \in PuzzleIdx |->
        rotateTimes(SolvedPuzzle[(37 * i + 11) % TILES_IN_PUZZLE_COUNT], (i \div 3) % TILE_SIZE)]

\* Pairs of individuals that each hold the tiles of SolvedPuzzle.
ParentPairs == {<<NearSolvedPuzzle, ScrambledPuzzle>>, <<ScrambledPuzzle, ScrambledPuzzle2>>}

\* <<input puzzle, parent 1, parent 2>>: the parents hold the tiles of the input puzzle.
OrderInputs == {<<SolvedPuzzle, NearSolvedPuzzle, ScrambledPuzzle>>,
                <<ScrambledPuzzle, ScrambledPuzzle2, SolvedPuzzle>>}

IdleTile == arr = NotUsed /\ arr_in = NotUsed
IdlePuzzle == puzzle = NotUsed /\ copy_puzzle = NotUsed /\ swap_first = -1 /\ swap_second = -1
              /\ edge_mismatch_count = 0 /\ file = NotUsed
IdleCross == offspring1 = NotUsed /\ offspring2 = NotUsed /\ parent1 = NotUsed
             /\ parent2 = NotUsed /\ points = <<>>
IdleMaps == duplicatesMap = NotUsed /\ map_of_tiles = NotUsed
IdleEvolve ==
    /\ population_arr = NotUsed /\ offspring_arr = NotUsed /\ random = NotUsed
    /\ NUM_OF_GENERATIONS = 0 /\ min_edge_mismatch_count = 0 /\ generations_performed = 0
    /\ stagnated_generation_count = 0 /\ mutation_rate = 0
    /\ last_gen_best_edge_mismatch = 0 /\ best_puzzle_so_far = OwnAllocation
    /\ sorted_index_by_fitness_vec = NotUsed /\ parent_index_vec = NotUsed
    /\ worst_index_vec = NotUsed

----------------------------------------------------------------------------
(* SpecTile: rotateToLeftByOneIndex called repeatedly on one tile.          *)

InitTile ==
    /\ arr \in Tiles
    /\ arr_in = arr
    /\ calls = 0
    /\ pc = "unit"
    /\ IdlePuzzle /\ IdleCross /\ IdleMaps /\ IdleEvolve

UnitRotate ==
    /\ calls < MaxRotations
    /\ arr' = rotateToLeftByOneIndex(arr)
    /\ calls' = calls + 1
    /\ UNCHANGED <<arr_in, pc, puzzleVars, crossVars, mapVars, evolveVars>>

NextTile == UnitRotate

SpecTile == InitTile /\ [][NextTile]_vars

----------------------------------------------------------------------------
(* SpecPuzzle: one call of swapTile, or one rotation of one tile, on an    *)
(* input puzzle; countEdgeMismatch is called on every puzzle reached.      *)

InitPuzzle ==
    /\ puzzle \in InputPuzzles
    /\ copy_puzzle = puzzle /\ file = NotUsed
    /\ swap_first = -1 /\ swap_second = -1
    /\ edge_mismatch_count = 0
    /\ calls = 0
    /\ pc = "unit"
    /\ IdleTile /\ IdleCross /\ IdleMaps /\ IdleEvolve

UnitSwapTile ==
    /\ calls = 0 /\ pc = "unit"
    /\ \E g \in SwapGenerators :
          /\ puzzle' = swapTile(puzzle, g)
          /\ swap_first' = swapIndices(g)[1]
          /\ swap_second' = swapIndices(g)[2]
    /\ copy_puzzle' = puzzle
    /\ calls' = 1
    /\ UNCHANGED <<edge_mismatch_count, file, pc, tileVars, crossVars, mapVars, evolveVars>>

\* rotateToLeftByOneIndex(arr[idx]) for a drawn idx, as mutate (line 842) does.
UnitRotateAt ==
    /\ calls = 0 /\ pc = "unit"
    /\ \E g \in AllGenerators :
          puzzle' = [puzzle EXCEPT ![draw(g)] = rotateToLeftByOneIndex(puzzle[draw(g)])]
    /\ copy_puzzle' = puzzle
    /\ calls' = 1
    /\ UNCHANGED <<swap_first, swap_second, edge_mismatch_count, file, pc, tileVars, crossVars,
                   mapVars, evolveVars>>

\* countEdgeMismatch(puzzle), as evaluateFitness (line 904) calls it.
UnitCountEdgeMismatch ==
    /\ pc = "unit"
    /\ edge_mismatch_count' = countEdgeMismatch(puzzle)
    /\ pc' = "counted"
    /\ UNCHANGED <<puzzle, copy_puzzle, swap_first, swap_second, file, calls, tileVars,
                   crossVars, mapVars, evolveVars>>

NextPuzzle == UnitSwapTile \/ UnitRotateAt \/ UnitCountEdgeMismatch

SpecPuzzle == InitPuzzle /\ [][NextPuzzle]_vars

----------------------------------------------------------------------------
(* SpecTwoPoint: twoPointCrossover called on two individuals, then called  *)
(* again on its own outputs.  The operator seeds its own generator: the    *)
(* first call draws any two points; the second call draws the same two     *)
(* points again or two sample points.                                      *)

InitTwoPoint ==
    /\ \E pp \in ParentPairs : parent1 = pp[1] /\ parent2 = pp[2]
    /\ offspring1 = parent1 /\ offspring2 = parent2
    /\ points = <<>>
    /\ calls = 0
    /\ pc = "unit"
    /\ IdleTile /\ IdlePuzzle /\ IdleMaps /\ IdleEvolve

TwoPointGenerators ==
    IF calls = 0 THEN AllGenerators
    ELSE {Generator(<<a, b>>) : a, b \in SamplePoints} \cup {Generator(points[1])}

UnitTwoPointCrossover ==
    /\ calls < 2
    /\ \E g \in TwoPointGenerators :
          \E r \in {twoPointCrossover(offspring1, offspring2, g)} :
              /\ offspring1' = r.offspring1
              /\ offspring2' = r.offspring2
              /\ points' = Append(points, r.points)
    /\ calls' = calls + 1
    /\ UNCHANGED <<parent1, parent2, pc, tileVars, puzzleVars, mapVars, evolveVars>>

NextTwoPoint == UnitTwoPointCrossover

SpecTwoPoint == InitTwoPoint /\ [][NextTwoPoint]_vars

----------------------------------------------------------------------------
(* SpecOrder: one call of orderCrossover on two individuals that hold the  *)
(* tiles of the input puzzle, with the maps main builds from that puzzle.  *)

InitOrder ==
    /\ \E in \in OrderInputs : puzzle = in[1] /\ parent1 = in[2] /\ parent2 = in[3]
    /\ copy_puzzle = puzzle /\ file = NotUsed
    /\ swap_first = -1 /\ swap_second = -1
    /\ edge_mismatch_count = 0
    /\ duplicatesMap = recordDuplicateTiles(puzzle)
    /\ map_of_tiles = buildMapOfTiles(puzzle)
    /\ offspring1 = parent1 /\ offspring2 = parent2
    /\ points = <<>>
    /\ calls = 0
    /\ pc = "unit"
    /\ IdleTile /\ IdleEvolve

UnitOrderCrossover ==
    /\ calls = 0
    /\ \E g \in AllGenerators :
          \E r \in {orderCrossover(offspring1, offspring2, duplicatesMap, map_of_tiles, g)} :
              /\ offspring1' = r.offspring1
              /\ offspring2' = r.offspring2
              /\ points' = Append(points, r.points)
              /\ pc' = r.status
    /\ calls' = 1
    /\ UNCHANGED <<parent1, parent2, tileVars, puzzleVars, mapVars, evolveVars>>

NextOrder == UnitOrderCrossover

SpecOrder == InitOrder /\ [][NextOrder]_vars

----------------------------------------------------------------------------
(* SpecMutate: one call of mutate on two offspring that hold the tiles of  *)
(* the input puzzle, for every mutation rate of the lookup table.          *)

MutationRates == {mutation_rate_lut[i] : i \in 0 .. MAX_MISMATCH - 1} \cup {MAX_MUTATION_RATE}

\* Streams of period 3 whose first draw (the source of num_iterations) is any value.
MutateGenerators ==
    {Generator(<<a, b, TILES_IN_PUZZLE_COUNT - 1 - b>>) : a \in PuzzleIdx, b \in {5, 42}}

InitMutate ==
    /\ puzzle = SolvedPuzzle
    /\ copy_puzzle = puzzle /\ file = NotUsed
    /\ swap_first = -1 /\ swap_second = -1
    /\ edge_mismatch_count = 0
    /\ \E pp \in ParentPairs : parent1 = pp[1] /\ parent2 = pp[2]
    /\ offspring1 = parent1 /\ offspring2 = parent2
    /\ points = <<>>
    /\ mutation_rate \in MutationRates
    /\ calls = 0
    /\ pc = "unit"
    /\ population_arr = NotUsed /\ offspring_arr = NotUsed /\ random = NotUsed
    /\ NUM_OF_GENERATIONS = 0 /\ min_edge_mismatch_count = 0 /\ generations_performed = 0
    /\ stagnated_generation_count = 0
    /\ last_gen_best_edge_mismatch = 0 /\ best_puzzle_so_far = OwnAllocation
    /\ sorted_index_by_fitness_vec = NotUsed /\ parent_index_vec = NotUsed
    /\ worst_index_vec = NotUsed
    /\ IdleTile /\ IdleMaps

\* mutate(offspring_arr, 2, random, mutation_rate) on the array <offspring1, offspring2>.
UnitMutate ==
    /\ calls = 0
    /\ \E g \in MutateGenerators :
          \E r \in {mutate((0 :> offspring1) @@ (1 :> offspring2), 2, g, mutation_rate)} :
              /\ offspring1' = r.off[0]
              /\ offspring2' = r.off[1]
              /\ random' = g
              /\ pc' = r.status
    /\ calls' = 1
    /\ UNCHANGED <<parent1, parent2, points, tileVars, puzzleVars, mapVars, popVars,
                   scalarVars, rankVars>>

NextMutate == UnitMutate

SpecMutate == InitMutate /\ [][NextMutate]_vars

----------------------------------------------------------------------------
(* SpecMaps: main builds the two maps from the input puzzle (part_002      *)
(* lines 23-24): buildMapOfTiles, then recordDuplicateTiles.  The inputs   *)
(* are the input puzzles and a puzzle with few tile classes, each with its *)
(* tiles turned by amounts that vary over the cells.  orderCrossover then  *)
(* consults the two maps.                                                  *)

\* Five tile classes: one with four distinct edges given in two orientations, one
\* of period 2 given in both orientations, one rotation-invariant, one with two
\* equal neighbouring edges, and one that occurs a single time (cell 0).
FewClassesPuzzle ==
    [i \in PuzzleIdx |->
        IF i = 0 THEN Tile(6, 5, 4, 3)
        ELSE CASE i % 6 = 0 -> Tile(1, 2, 3, 4)
               [] i % 6 = 1 -> Tile(3, 4, 1, 2)
               [] i % 6 = 2 -> Tile(1, 2, 1, 2)
               [] i % 6 = 3 -> Tile(2, 1, 2, 1)
               [] i % 6 = 4 -> Tile(5, 5, 5, 5)
               [] OTHER -> Tile(0, 0, 6, 6)]

\* p with the tile of cell i rotated (a * i + b) mod 4 times.
turned(p, a, b) == [i \in PuzzleIdx |-> rotateTimes(p[i], (a * i + b) % TILE_SIZE)]

MapInputs ==
    {turned(p, a, b) : p \in InputPuzzles \cup {FewClassesPuzzle}, a \in TileIdx, b \in TileIdx}

InitMaps ==
    /\ puzzle \in MapInputs
    /\ copy_puzzle = puzzle /\ file = NotUsed
    /\ swap_first = -1 /\ swap_second = -1
    /\ edge_mismatch_count = 0
    /\ calls = 0
    /\ pc = "unit"
    /\ IdleTile /\ IdleCross /\ IdleMaps /\ IdleEvolve

\* part_002 line 23
UnitBuildMapOfTiles ==
    /\ pc = "unit"
    /\ map_of_tiles' = buildMapOfTiles(puzzle)
    /\ pc' = "mapped"
    /\ calls' = calls + 1
    /\ UNCHANGED <<duplicatesMap, tileVars, puzzleVars, crossVars, evolveVars>>

\* part_002 line 24
UnitRecordDuplicateTiles ==
    /\ pc = "mapped"
    /\ duplicatesMap' = recordDuplicateTiles(puzzle)
    /\ pc' = "recorded"
    /\ calls' = calls + 1
    /\ UNCHANGED <<map_of_tiles, tileVars, puzzleVars, crossVars, evolveVars>>

\* The tiles of p in reverse order, each rotated once: another arrangement of the
\* same multiset, as the individuals of the population are.
rearranged(p) ==
    [i \in PuzzleIdx |-> rotateToLeftByOneIndex(p[(TILES_IN_PUZZLE_COUNT - 1) - i])]

\* Crossover points 5 and 40, and 20 twice (an empty segment: all 64 tiles are filled
\* in through the lookups).
MapGenerators == {Generator(<<5, 40>>), Generator(<<20, 20>>)}

\* orderCrossover (lines 636-712) with the two maps, on the puzzle and a
\* rearrangement of it; pc becomes the outcome of its lookups and loops.
UnitOrderLookups ==
    /\ pc = "recorded"
    /\ \E g \in MapGenerators :
          \E r \in {orderCrossover(puzzle, rearranged(puzzle), duplicatesMap, map_of_tiles, g)} :
              /\ offspring1' = r.offspring1
              /\ offspring2' = r.offspring2
              /\ points' = Append(points, r.points)
              /\ pc' = r.status
    /\ parent1' = puzzle
    /\ parent2' = rearranged(puzzle)
    /\ calls' = calls + 1
    /\ UNCHANGED <<tileVars, puzzleVars, mapVars, evolveVars>>

NextMaps == UnitBuildMapOfTiles \/ UnitRecordDuplicateTiles \/ UnitOrderLookups

SpecMaps == InitMaps /\ [][NextMaps]_vars

----------------------------------------------------------------------------
(* SpecSelect: evolve's elite count (lines 733-735) and one call of        *)
(* selectParentsAndWorst (line 795) for a range of population sizes.  The  *)
(* ranking is what evaluateFitness returns: every index once, in           *)
(* descending order of mismatch count.                                     *)

MaxSelectSize == 12
DefaultPopulationSize == 100
SelectSizes == (1 .. MaxSelectSize) \cup {DefaultPopulationSize}

\* The ranking of population_size individuals in which position k holds individual
\* (step * k + shift) % population_size, with counts falling from MAX_MISMATCH.
rankingOf(population_size, step, shift) ==
    [k \in 0 .. population_size - 1 |->
        [first |-> (step * k + shift) % population_size,
         second |-> MAX_MISMATCH - ((k * MAX_MISMATCH) \div population_size)]]

SelectRankings ==
    UNION {{rankingOf(n, step, shift) : step \in {1, n - 1}, shift \in 0 .. n - 1} :
           n \in SelectSizes}

populationSizeOf(sorted_vec) == Cardinality(DOMAIN sorted_vec)

InitSelect ==
    /\ sorted_index_by_fitness_vec \in SelectRankings
    /\ parent_index_vec = NotUsed /\ worst_index_vec = NotUsed
    /\ puzzle = SolvedPuzzle
    /\ copy_puzzle = puzzle /\ file = NotUsed
    /\ swap_first = -1 /\ swap_second = -1
    /\ edge_mismatch_count = 0
    /\ parent1 = NotUsed /\ parent2 = NotUsed
    /\ offspring1 = NotUsed /\ offspring2 = NotUsed
    /\ points = <<>>
    /\ mutation_rate = MAX_MUTATION_RATE
    /\ calls = 0
    /\ pc = "unit"
    /\ population_arr = NotUsed /\ offspring_arr = NotUsed /\ random = NotUsed
    /\ NUM_OF_GENERATIONS = 0 /\ min_edge_mismatch_count = 0 /\ generations_performed = 0
    /\ stagnated_generation_count = 0
    /\ last_gen_best_edge_mismatch = 0 /\ best_puzzle_so_far = OwnAllocation
    /\ IdleTile /\ IdleMaps

\* Lines 733-735 followed by line 795 for the population size of the ranking.
UnitSelect ==
    /\ calls = 0
    /\ \E r \in {selectParentsAndWorstOf(
                     populationSizeOf(sorted_index_by_fitness_vec),
                     sorted_index_by_fitness_vec,
                     ratioAdjustedPopSizeFor(populationSizeOf(sorted_index_by_fitness_vec)))} :
          /\ parent_index_vec' = r[1]
          /\ worst_index_vec' = r[2]
    /\ calls' = 1
    /\ pc' = "selected"
    /\ UNCHANGED <<sorted_index_by_fitness_vec, crossVars, tileVars, puzzleVars, mapVars,
                   popVars, random, scalarVars>>

NextSelect == UnitSelect

SpecSelect == InitSelect /\ [][NextSelect]_vars

----------------------------------------------------------------------------
(* SpecSeed: one call of generatePopulation (part_002 line 26, test        *)
(* harness part_008 lines 62-67) on a freshly allocated population, for a  *)
(* range of population sizes, inputs and generators.                       *)

MaxSeedSize == 6
SeedSizes == 2 .. MaxSeedSize
SeedGenerators == {Generator(<<a, b, 42>>) : a \in {0, 5, 40}, b \in {12, 17, 63}}

InitSeed ==
    /\ puzzle \in InputPuzzles
    /\ copy_puzzle = puzzle /\ file = NotUsed
    /\ swap_first = -1 /\ swap_second = -1
    /\ edge_mismatch_count = 0
    /\ \E n \in SeedSizes : population_arr = [i \in 0 .. n - 1 |-> NotUsed]
    /\ offspring_arr = NotUsed
    /\ random \in SeedGenerators
    /\ NUM_OF_GENERATIONS = 0 /\ min_edge_mismatch_count = 0 /\ generations_performed = 0
    /\ stagnated_generation_count = 0 /\ mutation_rate = 0
    /\ last_gen_best_edge_mismatch = 0 /\ best_puzzle_so_far = OwnAllocation
    /\ sorted_index_by_fitness_vec = NotUsed /\ parent_index_vec = NotUsed
    /\ worst_index_vec = NotUsed
    /\ calls = 0
    /\ pc = "unit"
    /\ IdleTile /\ IdleCross /\ IdleMaps

\* generatePopulation(population_arr, puzzle, POPULATION_SIZE, random)
UnitGeneratePopulation ==
    /\ calls = 0
    /\ population_arr' = generatePopulation(population_arr, puzzle,
                                            Cardinality(DOMAIN population_arr), random)
    /\ calls' = 1
    /\ pc' = "seeded"
    /\ UNCHANGED <<offspring_arr, random, scalarVars, rankVars, tileVars, puzzleVars,
                   crossVars, mapVars>>

NextSeed == UnitGeneratePopulation

SpecSeed == InitSeed /\ [][NextSeed]_vars

----------------------------------------------------------------------------
(* Spec: main seeds the population from the input puzzle and runs evolve.  *)

MaxGen == 11               \* the largest generation budget
BranchGens == 2            \* generations explored with every stream and every tie order

\* What getRandomGen returns is seeded from the clock: some stream of draws.  The
\* generations after BranchGens all draw DefaultStream, whose first draw makes
\* num_iterations 0 for every mutation rate.
DefaultStream == <<0, 17, 42>>
Streams == {DefaultStream, <<28, 5, 5, 61>>, <<62, 9, 33, 12>>}

\* Runs with a budget above MaxGen are followed along DefaultStream alone.
Branching == generations_performed <= BranchGens /\ NUM_OF_GENERATIONS <= MaxGen

RandomGens ==
    IF Branching THEN {Generator(st) : st \in Streams}
    ELSE {Generator(DefaultStream)}

\* The rankings explored: every outcome of the sort in the first BranchGens
\* generations, afterwards the one that keeps equal counts in index order (what an
\* insertion sort returns).
IsStable(vec) ==
    \A i, j \in DOMAIN vec : (i < j /\ vec[i].second = vec[j].second) => vec[i].first < vec[j].first

Rankings ==
    IF Branching THEN evaluateFitness(population_arr)
    ELSE {vec \in evaluateFitness(population_arr) : IsStable(vec)}

EvolveInputs == {SolvedPuzzle, NearSolvedPuzzle, ScrambledPuzzle}
Budgets == {0, MaxGen \div 4, MaxGen}

\* Line 782.  An index outside the table reads whatever int lies behind it.
OutOfBoundsInts == {0, 5, 40}
lutRead(index) ==
    IF index \in DOMAIN mutation_rate_lut THEN {mutation_rate_lut[index]}
    ELSE OutOfBoundsInts

\* main before generatePopulation (part_002, lines 12-26): the budget and the puzzle
\* are read, the two maps are built, the population is allocated.
InitOn(inputs, budgets, generators) ==
    /\ puzzle \in inputs
    /\ copy_puzzle = puzzle /\ file = NotUsed
    /\ swap_first = -1 /\ swap_second = -1
    /\ edge_mismatch_count = 0
    /\ duplicatesMap = recordDuplicateTiles(puzzle)
    /\ map_of_tiles = buildMapOfTiles(puzzle)
    /\ NUM_OF_GENERATIONS \in budgets
    /\ population_arr = [i \in PopIdx |-> NotUsed]
    /\ offspring_arr = NotUsed
    /\ random \in generators
    /\ min_edge_mismatch_count = 0 /\ generations_performed = 0
    /\ stagnated_generation_count = 0 /\ mutation_rate = 0
    /\ last_gen_best_edge_mismatch = 0 /\ best_puzzle_so_far = OwnAllocation
    /\ sorted_index_by_fitness_vec = NotUsed /\ parent_index_vec = NotUsed
    /\ worst_index_vec = NotUsed
    /\ calls = 0
    /\ pc = "main"
    /\ IdleTile /\ IdleCross

Init == InitOn(EvolveInputs, Budgets, {Generator(st) : st \in Streams})

\* main: generatePopulation(population_arr, puzzle, POPULATION_SIZE, random)
Seed ==
    /\ pc = "main"
    /\ population_arr' = generatePopulation(population_arr, puzzle, POPULATION_SIZE, random)
    /\ pc' = "evolve"
    /\ UNCHANGED <<calls, offspring_arr, random, scalarVars, rankVars, tileVars, puzzleVars,
                   crossVars, mapVars>>

\* evolve, lines 725-746: the locals before the loop.
EvolveStart ==
    /\ pc = "evolve"
    /\ min_edge_mismatch_count' = INT_MAX
    /\ generations_performed' = 1
    /\ stagnated_generation_count' = 0
    /\ mutation_rate' = MAX_MUTATION_RATE
    /\ best_puzzle_so_far' = OwnAllocation
    /\ offspring_arr' = [i \in OffIdx |-> NotUsed]
    /\ last_gen_best_edge_mismatch' = INT_MAX
    /\ pc' = "loop"
    /\ UNCHANGED <<calls, NUM_OF_GENERATIONS, population_arr, random, rankVars, tileVars,
                   puzzleVars, crossVars, mapVars>>

\* Line 749, condition false: evolve reports best_puzzle_so_far (lines 809-810).
LoopExit ==
    /\ pc = "loop"
    /\ generations_performed > NUM_OF_GENERATIONS
    /\ pc' = "done"
    /\ UNCHANGED <<calls, evolveVars, tileVars, puzzleVars, crossVars, mapVars>>

\* The same step under a loop condition that lets a budget of 0 run on.
EvaluateUnbounded ==
    /\ pc = "loop"
    /\ generations_performed <= NUM_OF_GENERATIONS \/ NUM_OF_GENERATIONS = 0
    /\ random' \in RandomGens
    /\ \E vec \in Rankings :
          /\ sorted_index_by_fitness_vec' = vec
          /\ IF back(vec).second < min_edge_mismatch_count
             THEN /\ best_puzzle_so_far' = back(vec).first
                  /\ stagnated_generation_count' = 0
             ELSE UNCHANGED <<best_puzzle_so_far, stagnated_generation_count>>
    /\ pc' = "stagnation"
    /\ UNCHANGED <<calls, NUM_OF_GENERATIONS, popVars, min_edge_mismatch_count,
                   generations_performed, mutation_rate, last_gen_best_edge_mismatch,
                   parent_index_vec, worst_index_vec, tileVars, puzzleVars, crossVars, mapVars>>

\* Lines 749-767: a new generator, the ranking, and the pointer to the best puzzle.
Evaluate ==
    /\ pc = "loop"
    /\ generations_performed <= NUM_OF_GENERATIONS
    /\ random' \in RandomGens
    /\ \E vec \in Rankings :
          /\ sorted_index_by_fitness_vec' = vec
          /\ IF back(vec).second < min_edge_mismatch_count
             THEN /\ best_puzzle_so_far' = back(vec).first
                  /\ stagnated_generation_count' = 0
             ELSE UNCHANGED <<best_puzzle_so_far, stagnated_generation_count>>
    /\ pc' = "stagnation"
    /\ UNCHANGED <<calls, NUM_OF_GENERATIONS, popVars, min_edge_mismatch_count,
                   generations_performed, mutation_rate, last_gen_best_edge_mismatch,
                   parent_index_vec, worst_index_vec, tileVars, puzzleVars, crossVars, mapVars>>

\* The same step with the stagnation counter reset at every tier.
CheckStagnationResetAlways ==
    /\ pc = "stagnation"
    /\ LET count == stagnated_generation_count + 1
           best == back(sorted_index_by_fitness_vec).second
           lowest == Min(min_edge_mismatch_count, best)
           tiers == {stagnation_threshold, stagnation_threshold * 10,
                     stagnation_threshold * 100}
       IN  /\ population_arr' =
                 IF count \in tiers
                 THEN generatePopulation(population_arr, population_arr[best_puzzle_so_far],
                                         POPULATION_SIZE, random)
                 ELSE population_arr
           /\ stagnated_generation_count' = IF count \in tiers THEN 0 ELSE count
           /\ min_edge_mismatch_count' = lowest
           /\ IF best # last_gen_best_edge_mismatch
              THEN /\ last_gen_best_edge_mismatch' = best
                   /\ mutation_rate' \in lutRead(best)
              ELSE UNCHANGED <<last_gen_best_edge_mismatch, mutation_rate>>
           /\ pc' = IF lowest = 0 THEN "done" ELSE "select"
    /\ UNCHANGED <<calls, NUM_OF_GENERATIONS, offspring_arr, random, generations_performed,
                   best_puzzle_so_far, rankVars, tileVars, puzzleVars, crossVars, mapVars>>

\* Lines 770-788: repopulation on stagnation, the minimum, the mutation rate and
\* the termination test.
CheckStagnation ==
    /\ pc = "stagnation"
    /\ LET count == stagnated_generation_count + 1
           best == back(sorted_index_by_fitness_vec).second
           lowest == Min(min_edge_mismatch_count, best)
       IN  /\ population_arr' =
                 IF count \in {stagnation_threshold, stagnation_threshold * 10,
                               stagnation_threshold * 100}
                 THEN generatePopulation(population_arr, population_arr[best_puzzle_so_far],
                                         POPULATION_SIZE, random)
                 ELSE population_arr
           /\ stagnated_generation_count' =
                 IF count = stagnation_threshold * 100 THEN 0 ELSE count
           /\ min_edge_mismatch_count' = lowest
           /\ IF best # last_gen_best_edge_mismatch
              THEN /\ last_gen_best_edge_mismatch' = best
                   /\ mutation_rate' \in lutRead(best)
              ELSE UNCHANGED <<last_gen_best_edge_mismatch, mutation_rate>>
           /\ pc' = IF lowest = 0 THEN "done" ELSE "select"
    /\ UNCHANGED <<calls, NUM_OF_GENERATIONS, offspring_arr, random, generations_performed,
                   best_puzzle_so_far, rankVars, tileVars, puzzleVars, crossVars, mapVars>>

\* Lines 791-796: selectParentsAndWorst and crossover.
SelectAndCrossover ==
    /\ pc = "select"
    /\ \E sel \in {selectParentsAndWorst(sorted_index_by_fitness_vec, ratio_adjusted_pop_size)} :
          /\ parent_index_vec' = sel[1]
          /\ worst_index_vec' = sel[2]
          /\ \E r \in {crossover(population_arr, sel[1], offspring_arr, duplicatesMap,
                                 map_of_tiles, back(sorted_index_by_fitness_vec).second,
                                 random)} :
                /\ offspring_arr' = r.off
                /\ pc' = IF r.status = "ok" THEN "mutate" ELSE r.status
    /\ UNCHANGED <<calls, population_arr, random, scalarVars, sorted_index_by_fitness_vec,
                   tileVars, puzzleVars, crossVars, mapVars>>

\* Line 797.
Mutate ==
    /\ pc = "mutate"
    /\ \E r \in {mutate(offspring_arr, ratio_adjusted_pop_size, random, mutation_rate)} :
          /\ offspring_arr' = r.off
          /\ pc' = IF r.status = "ok" THEN "replace" ELSE r.status
    /\ UNCHANGED <<calls, population_arr, random, scalarVars, rankVars, tileVars, puzzleVars,
                   crossVars, mapVars>>

\* Lines 800-807: selectSurvivorsAndReplace and the end of the loop body, where the
\* ranking and the index vectors go out of scope.
Replace ==
    /\ pc = "replace"
    /\ population_arr' =
          selectSurvivorsAndReplace(population_arr, worst_index_vec, offspring_arr)
    /\ generations_performed' = generations_performed + 1
    /\ sorted_index_by_fitness_vec' = NotUsed
    /\ parent_index_vec' = NotUsed
    /\ worst_index_vec' = NotUsed
    /\ pc' = "loop"
    /\ UNCHANGED <<calls, NUM_OF_GENERATIONS, offspring_arr, random, min_edge_mismatch_count,
                   stagnated_generation_count, mutation_rate, last_gen_best_edge_mismatch,
                   best_puzzle_so_far, tileVars, puzzleVars, crossVars, mapVars>>

Next ==
    \/ Seed
    \/ EvolveStart
    \/ LoopExit
    \/ Evaluate
    \/ CheckStagnation
    \/ SelectAndCrossover
    \/ Mutate
    \/ Replace

Spec == Init /\ [][Next]_vars

\* evolve is sequential code: unless it has returned, or runs for ever inside
\* orderCrossover ("hang"), or was ended by an exception ("abort"), its next
\* statement is executed.  Advance is Next seen on the program counter alone: every
\* action of Next changes pc, and at every other program point one is enabled.
ProgramPoints ==
    {"main", "evolve", "loop", "stagnation", "select", "mutate", "replace", "done",
     "hang", "abort"}

Advance ==
    /\ pc \notin {"done", "hang", "abort"}
    /\ pc' \in ProgramPoints \ {pc}

SpecFair == Init /\ [][Next]_vars /\ WF_pc(Advance)

----------------------------------------------------------------------------
(* SpecWorst: the same program on a puzzle all of whose 112 inner edges    *)
(* mismatch, whatever the arrangement of its tiles.                        *)

InitWorst == InitOn({CheckerPuzzle}, {MaxGen \div 4}, {Generator(st) : st \in Streams})

SpecWorst == InitWorst /\ [][Next]_vars /\ WF_pc(Advance)

----------------------------------------------------------------------------
(* SpecLong: the same program on a budget that reaches the three           *)
(* stagnation tiers (stagnation_threshold, 10 and 100 times it).           *)

LongGen == 1001            \* the budget of the long runs
LongInputs == {ScrambledPuzzle, NearSolvedPuzzle}

InitLong == InitOn(LongInputs, {LongGen}, {Generator(DefaultStream)})

SpecLong == InitLong /\ [][Next]_vars

----------------------------------------------------------------------------
(* SpecInput: main from readInput to generatePopulation (part_002 lines    *)
(* 21-26), for input files that are missing, well formed or too short.     *)

\* ifstream file(filename): whether the stream opened, and the tokens of its text.
MissingFile == [opened |-> FALSE, tokens |-> <<>>]
OpenedFile(tokens) == [opened |-> TRUE, tokens |-> tokens]

\* The characters the input files of the model are made of, with their codes.
CharCode ==
    [c \in {DigitChar[d] : d \in 1 .. 10} \cup {"-", "a"} |->
        IF c = "-" THEN 45 ELSE IF c = "a" THEN 97
        ELSE 47 + (CHOOSE d \in 1 .. 10 : DigitChar[d] = c)]

\* Lines 376-387: every whitespace-separated token becomes the vector of its
\* characters minus '0'.
digitsArrayOf(tokens) ==
    [k \in 1 .. Len(tokens) |->
        [d \in 1 .. Len(tokens[k]) |-> CharCode[tokens[k][d]] - CharCode["0"]]]

\* Lines 390-394: puzzle[i][j] = digitsArray[i][j].  An element outside digitsArray
\* is read with operator[]: the read faults, or yields whatever lies there.
copyDigits(digitsArray, dest) ==
    LET InBounds(i, j) == i + 1 <= Len(digitsArray) /\ j + 1 <= Len(digitsArray[i + 1])
    IN  IF \A i \in PuzzleIdx : \A j \in TileIdx : InBounds(i, j)
        THEN {[status |-> "read",
               puzzle |-> [i \in PuzzleIdx |-> [j \in TileIdx |-> digitsArray[i + 1][j + 1]]]]}
        ELSE {[status |-> "fault", puzzle |-> dest]}
             \cup {[status |-> "read",
                     puzzle |-> [i \in PuzzleIdx |-> [j \in TileIdx |->
                                   IF InBounds(i, j) THEN digitsArray[i + 1][j + 1] ELSE w]]] :
                    w \in OutOfBoundsInts}

\* readInput (lines 361-395).  A file that cannot be opened is reported on cerr
\* (lines 364-366) and then read like an empty one; nothing is thrown.
readInput(f, dest) ==
    LET content == IF ~f.opened THEN <<>> ELSE f.tokens
    IN  copyDigits(digitsArrayOf(content), dest)

\* The text of a file that holds the puzzle p, one four-digit token per tile.
TextOf(p) == [i \in 1 .. TILES_IN_PUZZLE_COUNT |->
                 [j \in 1 .. TILE_SIZE |-> DigitChar[p[i - 1][j - 1] + 1]]]
FileOf(p) == OpenedFile(TextOf(p))

InputFiles ==
    {MissingFile}
    \cup {FileOf(turned(p, a, 0)) : p \in InputPuzzles \cup {FewClassesPuzzle}, a \in TileIdx}
    \cup {OpenedFile(<<>>),
          OpenedFile(SubSeq(TextOf(SolvedPuzzle), 1, TILES_IN_PUZZLE_COUNT - 1)),
          OpenedFile([TextOf(ScrambledPuzzle) EXCEPT ![TILES_IN_PUZZLE_COUNT] = <<"1", "2", "3">>]),
          OpenedFile([TextOf(ScrambledPuzzle) EXCEPT ![1] = <<"1", "a", "-", "4", "5">>]),
          OpenedFile(TextOf(SolvedPuzzle) \o <<<<"9", "9", "9", "9">>>>)}

InitInput ==
    /\ file \in InputFiles
    /\ puzzle = NotUsed /\ copy_puzzle = NotUsed
    /\ swap_first = -1 /\ swap_second = -1
    /\ edge_mismatch_count = 0
    /\ calls = 0
    /\ pc = "main"
    /\ IdleTile /\ IdleCross /\ IdleMaps
    /\ population_arr = NotUsed /\ offspring_arr = NotUsed
    /\ random \in {Generator(st) : st \in Streams}
    /\ NUM_OF_GENERATIONS = 0 /\ min_edge_mismatch_count = 0 /\ generations_performed = 0
    /\ stagnated_generation_count = 0 /\ mutation_rate = 0
    /\ last_gen_best_edge_mismatch = 0 /\ best_puzzle_so_far = OwnAllocation
    /\ sorted_index_by_fitness_vec = NotUsed /\ parent_index_vec = NotUsed
    /\ worst_index_vec = NotUsed

\* part_002 lines 21-22: allocatePuzzle and readInput("Ass1Input.txt", puzzle)
MainReadInput ==
    /\ pc = "main"
    /\ \E r \in readInput(file, puzzle) :
          /\ puzzle' = r.puzzle
          /\ pc' = r.status
    /\ UNCHANGED <<calls, copy_puzzle, swap_first, swap_second, edge_mismatch_count, file,
                   tileVars, crossVars, mapVars, evolveVars>>

\* part_002 lines 23-24
MainBuildMaps ==
    /\ pc = "read"
    /\ map_of_tiles' = buildMapOfTiles(puzzle)
    /\ duplicatesMap' = recordDuplicateTiles(puzzle)
    /\ pc' = "mapped"
    /\ UNCHANGED <<calls, tileVars, puzzleVars, crossVars, evolveVars>>

\* part_002 lines 25-28: allocatePopulation and generatePopulation
MainSeed ==
    /\ pc = "mapped"
    /\ population_arr' = generatePopulation([i \in PopIdx |-> NotUsed], puzzle,
                                            POPULATION_SIZE, random)
    /\ pc' = "seeded"
    /\ UNCHANGED <<calls, offspring_arr, random, scalarVars, rankVars, tileVars, puzzleVars,
                   crossVars, mapVars>>

NextInput == MainReadInput \/ MainBuildMaps \/ MainSeed

SpecInput == InitInput /\ [][NextInput]_vars

----------------------------------------------------------------------------
(* SpecCross: one call of crossover (line 796) on a population of eight    *)
(* arrangements of the tiles of SolvedPuzzle, for parent vectors of 2, 4   *)
(* and 6 indices and a best mismatch count on either side of the threshold. *)

CrossPopulation ==
    <<SolvedPuzzle, NearSolvedPuzzle, ScrambledPuzzle, ScrambledPuzzle2,
      turned(SolvedPuzzle, 1, 0), turned(ScrambledPuzzle, 1, 1),
      turned(ScrambledPuzzle2, 2, 1), turned(NearSolvedPuzzle, 3, 2)>>

CrossPopIdx == 0 .. Len(CrossPopulation) - 1
MaxParents == 6

\* Parent vectors as selectParentsAndWorst returns them: an even number of distinct
\* indices, here position k holding individual (step * k + shift) mod 8.
CrossParents ==
    {[k \in 0 .. size - 1 |-> (step * k + shift) % Len(CrossPopulation)] :
        size \in {n \in 2 .. MaxParents : n % 2 = 0}, step \in {1, 3}, shift \in {0, 5}}

CrossBest == {10, 11}

InitCross ==
    /\ puzzle = SolvedPuzzle
    /\ copy_puzzle = puzzle /\ file = NotUsed
    /\ swap_first = -1 /\ swap_second = -1
    /\ edge_mismatch_count = 0
    /\ duplicatesMap = recordDuplicateTiles(puzzle)
    /\ map_of_tiles = buildMapOfTiles(puzzle)
    /\ population_arr = [i \in CrossPopIdx |-> CrossPopulation[i + 1]]
    /\ parent_index_vec \in CrossParents
    /\ offspring_arr = [i \in DOMAIN parent_index_vec |-> NotUsed]
    /\ min_edge_mismatch_count \in CrossBest
    /\ random \in {Generator(st) : st \in Streams}
    /\ NUM_OF_GENERATIONS = 0 /\ generations_performed = 0
    /\ stagnated_generation_count = 0 /\ mutation_rate = 0
    /\ last_gen_best_edge_mismatch = 0 /\ best_puzzle_so_far = OwnAllocation
    /\ sorted_index_by_fitness_vec = NotUsed /\ worst_index_vec = NotUsed
    /\ calls = 0
    /\ pc = "unit"
    /\ IdleTile /\ IdleCross

\* crossover(population_arr, POPULATION_SIZE, parent_index_vec, offspring_arr,
\*           duplicatesMap, map_of_tiles, <best mismatch count>, random)
UnitCrossover ==
    /\ calls = 0
    /\ \E r \in {crossover(population_arr, parent_index_vec, offspring_arr, duplicatesMap,
                           map_of_tiles, min_edge_mismatch_count, random)} :
          /\ offspring_arr' = r.off
          /\ pc' = IF r.status = "ok" THEN "crossed" ELSE r.status
    /\ calls' = 1
    /\ UNCHANGED <<population_arr, random, scalarVars, rankVars, tileVars, puzzleVars,
                   crossVars, mapVars>>

NextCross == UnitCrossover

SpecCross == InitCross /\ [][NextCross]_vars

----------------------------------------------------------------------------
(* SpecSwapCalls: a caller that holds a generator, as mutate and           *)
(* generatePopulation do, calls swapTile(puzzle, random) several times,    *)
(* draws from its own generator in between (mutate, line 842), and may end *)
(* with a call of generatePopulation.  points records, per swapTile call,  *)
(* the position of the caller's generator and the two indices chosen.      *)

MaxSwapCalls == 3

InitSwapCalls ==
    /\ puzzle \in InputPuzzles
    /\ copy_puzzle = puzzle /\ file = NotUsed
    /\ swap_first = -1 /\ swap_second = -1
    /\ edge_mismatch_count = 0
    /\ random \in {Generator(st) : st \in Streams}
    /\ points = <<>>
    /\ offspring1 = NotUsed /\ offspring2 = NotUsed /\ parent1 = NotUsed /\ parent2 = NotUsed
    /\ population_arr = NotUsed /\ offspring_arr = NotUsed
    /\ NUM_OF_GENERATIONS = 0 /\ min_edge_mismatch_count = 0 /\ generations_performed = 0
    /\ stagnated_generation_count = 0 /\ mutation_rate = 0
    /\ last_gen_best_edge_mismatch = 0 /\ best_puzzle_so_far = OwnAllocation
    /\ sorted_index_by_fitness_vec = NotUsed /\ parent_index_vec = NotUsed
    /\ worst_index_vec = NotUsed
    /\ calls = 0
    /\ pc = "unit"
    /\ IdleTile /\ IdleMaps

\* swapTile(puzzle, random): the parameter is a copy (line 321), the caller's
\* generator is not touched.
CallSwapTile ==
    /\ pc = "unit" /\ calls < MaxSwapCalls
    /\ puzzle' = swapTile(puzzle, random)
    /\ swap_first' = swapIndices(random)[1]
    /\ swap_second' = swapIndices(random)[2]
    /\ points' = Append(points, <<random.pos, swapIndices(random)[1], swapIndices(random)[2]>>)
    /\ calls' = calls + 1
    /\ UNCHANGED <<pc, copy_puzzle, edge_mismatch_count, file, offspring1, offspring2, parent1,
                   parent2, tileVars, mapVars, evolveVars>>

\* random.second(random.first) in the caller (line 842).
CallerDraws ==
    /\ pc = "unit"
    /\ random' = advance(random)
    /\ UNCHANGED <<calls, pc, popVars, scalarVars, rankVars, tileVars, puzzleVars, crossVars,
                   mapVars>>

\* generatePopulation(population_arr, puzzle, POPULATION_SIZE, random)
CallGeneratePopulation ==
    /\ pc = "unit"
    /\ population_arr' = generatePopulation([i \in PopIdx |-> NotUsed], puzzle,
                                            POPULATION_SIZE, random)
    /\ pc' = "seeded"
    /\ UNCHANGED <<calls, offspring_arr, random, scalarVars, rankVars, tileVars, puzzleVars,
                   crossVars, mapVars>>

NextSwapCalls == CallSwapTile \/ CallerDraws \/ CallGeneratePopulation

SpecSwapCalls == InitSwapCalls /\ [][NextSwapCalls]_vars

----------------------------------------------------------------------------
(* Vocabulary of the properties.  It is independent of the operators above: *)
(* the canonical form of a tile is the least of the decimal codes of its   *)
(* four rotations.                                                         *)

RotCode(t, k) ==
    1000 * t[k % TILE_SIZE] + 100 * t[(k + 1) % TILE_SIZE]
    + 10 * t[(k + 2) % TILE_SIZE] + t[(k + 3) % TILE_SIZE]

CanonCode(t) ==
    LET a == Min(RotCode(t, 0), RotCode(t, 1))
        b == Min(RotCode(t, 2), RotCode(t, 3))
    IN  Min(a, b)

\* The multiset of the tiles of p up to rotation: canonical code -> multiplicity.
CanonBag(p) ==
    LET Step(bag, i) == LET c == CanonCode(p[i])
                        IN  (c :> (IF c \in DOMAIN bag THEN bag[c] ELSE 0) + 1) @@ bag
    IN  ForLoop(Step, <<>>, 0, TILES_IN_PUZZLE_COUNT)

SameTiles(p, q) == CanonBag(p) = CanonBag(q)

\* The cells whose left edge differs from the right edge of the cell before, column
\* 0 excluded, and those whose top edge differs from the bottom edge of the cell above.
LeftBad(p) == {i \in PuzzleIdx : Col(i) # 0 /\ p[i][3] # p[i - 1][1]}
TopBad(p) == {i \in PuzzleIdx : Row(i) >= 1 /\ p[i][0] # p[i - ROW_LENGTH][2]}

Changed(p, q) == {i \in PuzzleIdx : p[i] # q[i]}

----------------------------------------------------------------------------
(* Properties.                                                             *)

\* C1: once main has seeded the population, in every state of evolve (after every
\* crossover, mutation, replacement and forced repopulation) every individual of
\* the population, and every offspring about to replace one, holds exactly the
\* multiset of tiles of the input puzzle counted up to rotation.
C1_TileMultisetInvariant ==
    LET original == CanonBag(puzzle)
    IN  /\ pc # "main" => \A i \in PopIdx : CanonBag(population_arr[i]) = original
        /\ pc \in {"mutate", "replace"} =>
              \A i \in OffIdx : CanonBag(offspring_arr[i]) = original

\* C1 witness: the generation of a forced repopulation has ended; it ran
\* orderCrossover (best mismatch count at most 10), mutate and the replacement,
\* and the individuals differ from the input puzzle and from one another.
C1_Witness ==
    /\ pc = "loop"
    /\ stagnated_generation_count = stagnation_threshold
    /\ generations_performed = stagnation_threshold + 1
    /\ min_edge_mismatch_count \in 1 .. 10
    /\ population_arr[1] # puzzle
    /\ population_arr[1] # population_arr[2]
    /\ \A i \in PopIdx : SameTiles(population_arr[i], puzzle)

\* C2: orderCrossover, applied to two parents that each hold the tiles of the input
\* puzzle up to rotation, returns, and each of its two offspring holds exactly that
\* multiset of tiles, for every choice of the two crossover points.
C2_OrderCrossoverKeepsTiles ==
    calls = 1 =>
        /\ pc = "ok"
        /\ SameTiles(offspring1, puzzle)
        /\ SameTiles(offspring2, puzzle)

\* C2 witness: a crossover with a non-empty segment whose fill skipped tiles, so that
\* offspring2 differs from parent2 outside the segment.
C2_Witness ==
    /\ calls = 1 /\ pc = "ok"
    /\ points[1][1] < points[1][2]
    /\ \E i \in PuzzleIdx : (i < points[1][1] \/ i >= points[1][2]) /\ offspring2[i] # parent2[i]
    /\ SameTiles(offspring2, puzzle)
    /\ ~SameTiles([i \in PuzzleIdx |-> IF points[1][1] <= i /\ i < points[1][2]
                                        THEN parent1[i] ELSE parent2[i]], puzzle)

\* C3: mutate returns, and each offspring holds after mutate the same multiset of
\* tiles up to rotation as before, for every mutation rate of the lookup table
\* and every stream of draws.
C3_MutateKeepsTiles ==
    calls = 1 =>
        /\ pc = "ok"
        /\ SameTiles(offspring1, parent1)
        /\ SameTiles(offspring2, parent2)

\* C3 witness: a mutate call that swapped and rotated tiles in both offspring.
C3_Witness ==
    /\ calls = 1 /\ pc = "ok"
    /\ mutation_rate > 3
    /\ Cardinality(Changed(offspring1, parent1)) >= 3
    /\ Cardinality(Changed(offspring2, parent2)) >= 3
    /\ SameTiles(offspring1, parent1)

\* C4: countEdgeMismatch is the number of cells outside column 0 whose left edge
\* differs from the right edge of cell i-1 plus the number of cells of rows 1..7
\* whose top edge differs from the bottom edge of cell i-8; it lies in 0..112 and
\* is 0 exactly when no such cell exists.
C4_CountEdgeMismatch ==
    pc = "counted" =>
        /\ edge_mismatch_count = Cardinality(LeftBad(puzzle)) + Cardinality(TopBad(puzzle))
        /\ edge_mismatch_count \in 0 .. MAX_MISMATCH
        /\ (edge_mismatch_count = 0) <=> (LeftBad(puzzle) = {} /\ TopBad(puzzle) = {})

\* C4 witness: a puzzle with left and top mismatches in which the last cell of row 0
\* and the first cell of row 1 carry different motifs (a pair that is not compared).
C4_Witness ==
    /\ pc = "counted"
    /\ LeftBad(puzzle) # {} /\ TopBad(puzzle) # {}
    /\ puzzle[ROW_LENGTH][3] # puzzle[ROW_LENGTH - 1][1]
    /\ edge_mismatch_count \in 1 .. MAX_MISMATCH - 1

\* C5: four calls of rotateToLeftByOneIndex return the original tile.
C5_RotationOrderFour == calls = 4 => arr = arr_in

\* C5 witness: four calls made on a tile that one call changes.
C5_Witness == calls = 4 /\ arr = arr_in /\ arr_in[0] # arr_in[1]

\* C6: rotateToLeftByOneIndex is a cyclic left shift by one: after one call
\* r[i] = t[(i+1) mod 4], after two r[i] = t[(i+2) mod 4]; [1,2,3,4] becomes
\* [2,3,4,1] and then [3,4,1,2].
C6_RotationIsLeftShift ==
    /\ calls \in 1 .. 2 => \A i \in TileIdx : arr[i] = arr_in[(i + calls) % TILE_SIZE]
    /\ (arr_in = Tile(1, 2, 3, 4) /\ calls = 1) => arr = Tile(2, 3, 4, 1)
    /\ (arr_in = Tile(1, 2, 3, 4) /\ calls = 2) => arr = Tile(3, 4, 1, 2)

\* C6 witness: the test's tile after its second rotation.
C6_Witness == arr_in = Tile(1, 2, 3, 4) /\ calls = 2 /\ arr = Tile(3, 4, 1, 2)

C8_TwoPointSelfInverse ==
    (calls = 2 /\ points[2] = points[1]) => (offspring1 = parent1 /\ offspring2 = parent2)

\* C8 witness: the second call undid a first call that had changed both individuals.
C8_Witness ==
    /\ calls = 2 /\ points[2] = points[1]
    /\ points[1][1] < points[1][2]
    /\ \E i \in points[1][1] .. points[1][2] : parent1[i] # parent2[i]
    /\ offspring1 = parent1 /\ offspring2 = parent2

\* C9: twoPointCrossover returns points p1 <= p2; the two individuals have exchanged
\* their tiles at every position of p1..p2 and are unchanged everywhere else.
C9_TwoPointFrame ==
    calls = 1 =>
        LET p1 == points[1][1]
            p2 == points[1][2]
        IN  /\ p1 <= p2
            /\ \A i \in PuzzleIdx :
                  IF p1 <= i /\ i <= p2
                  THEN offspring1[i] = parent2[i] /\ offspring2[i] = parent1[i]
                  ELSE offspring1[i] = parent1[i] /\ offspring2[i] = parent2[i]

\* C9 witness: a call with interior points that changed both individuals.
C9_Witness ==
    /\ calls = 1
    /\ 0 < points[1][1] /\ points[1][1] < points[1][2] /\ points[1][2] < TILES_IN_PUZZLE_COUNT - 1
    /\ offspring1 # parent1 /\ offspring2 # parent2
    /\ offspring1[points[1][2]] = parent2[points[1][2]]

\* C10: when evolve has ended after evaluating at least one generation, the puzzle
\* best_puzzle_so_far designates, which evolve reports as best, has a mismatch
\* count equal to min_edge_mismatch_count.
C10_ReportedBestIsAllTimeBest ==
    (pc = "done" /\ best_puzzle_so_far # OwnAllocation) =>
        countEdgeMismatch(population_arr[best_puzzle_so_far]) = min_edge_mismatch_count

\* C11: every forced repopulation (stagnation counter reaching the threshold, 10 times
\* or 100 times the threshold) leaves in individual 0 a puzzle whose mismatch count
\* is the lowest count seen so far (min_edge_mismatch_count).
C11_RepopulationSeedsFromBest ==
    [][(pc = "stagnation" /\ stagnated_generation_count + 1 \in
            {stagnation_threshold, stagnation_threshold * 10, stagnation_threshold * 100})
       => countEdgeMismatch(population_arr'[0]) = min_edge_mismatch_count']_vars

\* C12: in a run whose best mismatch count never improves after the first evaluation
\* (the stagnation counter equals the number of completed generations), the
\* population is regenerated exactly in generations T, 10T and 100T, T being
\* stagnation_threshold, and in no other generation up to 100T; the counter goes back
\* to 0 in generation 100T only.  For a population of 10 the program's T is 100000.
C12_RepopulationTiers ==
    [][/\ stagnationThresholdFor(STAGNATION_BASE, 10) = 100000
       /\ (/\ pc = "stagnation"
           /\ generations_performed <= stagnation_threshold * 100
           /\ stagnated_generation_count = generations_performed - 1)
          => /\ (population_arr' # population_arr) <=>
                    generations_performed \in {stagnation_threshold,
                                               stagnation_threshold * 10,
                                               stagnation_threshold * 100}
             /\ stagnated_generation_count' =
                    IF generations_performed = stagnation_threshold * 100
                    THEN 0 ELSE generations_performed]_vars

\* The third tier of a run that never improved: generation 100T has just reset the
\* counter and regenerated the population.
C12_Witness ==
    /\ pc = "select"
    /\ generations_performed = stagnation_threshold * 100
    /\ stagnated_generation_count = 0
    /\ countEdgeMismatch(population_arr[0]) # INT_MAX

\* C13: when the base puzzle has no mismatch and the budget is at least 1, evolve
\* stops in generation 1 right after the first evaluation with
\* min_edge_mismatch_count = 0: no selection, crossover, mutation, replacement or
\* repopulation takes place.
SolvedBase == countEdgeMismatch(puzzle) = 0 /\ NUM_OF_GENERATIONS >= 1

C13_SolvedBaseStopsAtOnce ==
    /\ [](SolvedBase =>
            /\ pc \in {"main", "evolve", "loop", "stagnation", "done"}
            /\ generations_performed <= 1
            /\ stagnated_generation_count <= 1
            /\ parent_index_vec = NotUsed /\ worst_index_vec = NotUsed
            /\ offspring_arr \in {NotUsed, [i \in OffIdx |-> NotUsed]}
            /\ pc \in {"loop", "stagnation", "done"} => population_arr[0] = puzzle
            /\ pc = "done" => min_edge_mismatch_count = 0)
    /\ (SolvedBase ~> (pc = "done" /\ min_edge_mismatch_count = 0
                                   /\ generations_performed = 1))

C13_Witness ==
    /\ SolvedBase
    /\ pc = "done"
    /\ min_edge_mismatch_count = 0
    /\ generations_performed = 1
    /\ sorted_index_by_fitness_vec # NotUsed

\* C14: evolve always terminates; it performs at most NUM_OF_GENERATIONS
\* generations, and it stops before the budget is used up exactly when an evaluation
\* has brought min_edge_mismatch_count to 0.
C14_EvolveTerminates ==
    /\ <>(pc = "done")
    /\ [](pc \notin {"main", "evolve"} =>
            /\ generations_performed <= NUM_OF_GENERATIONS + 1
            /\ (pc = "done" /\ generations_performed <= NUM_OF_GENERATIONS)
                  => min_edge_mismatch_count = 0
            /\ min_edge_mismatch_count = 0 => pc = "done")

\* C15 as stated: with NUM_OF_GENERATIONS = 0 evolve does not stop by budget, it
\* ends only once a zero-mismatch individual has been found.
C15_ZeroBudgetRunsUntilSolved ==
    (NUM_OF_GENERATIONS = 0 /\ pc = "done") => min_edge_mismatch_count = 0

\* C15, amended: with NUM_OF_GENERATIONS = 0 evolve runs no generation.  The loop
\* condition of line 749 is false at once: nothing is evaluated, the minimum stays
\* INT_MAX, best_puzzle_so_far stays the buffer of line 736, and evolve returns.
C15_ZeroBudgetRunsNothing ==
    /\ [](NUM_OF_GENERATIONS = 0 =>
            /\ pc \in {"main", "evolve", "loop", "done"}
            /\ generations_performed <= 1
            /\ sorted_index_by_fitness_vec = NotUsed
            /\ pc \in {"loop", "done"} =>
                  /\ min_edge_mismatch_count = INT_MAX
                  /\ best_puzzle_so_far = OwnAllocation
                  /\ generations_performed = 1)
    /\ (NUM_OF_GENERATIONS = 0 ~> pc = "done")

C15_Witness ==
    /\ NUM_OF_GENERATIONS = 0
    /\ pc = "done"
    /\ min_edge_mismatch_count = INT_MAX
    /\ countEdgeMismatch(population_arr[0]) > 0

\* C16: in every generation that reaches reproduction, each parent pair (parents i
\* and eliteCount-1-i, i even) is crossed by the operator the threshold rule names.
\* With a best mismatch count <= 10 the pair's offspring are those of orderCrossover.
\* With a best count above 10 they are those of twoPointCrossover: that operator
\* draws its two points from a generator of its own, so the offspring are the
\* outcome of some pair of points, and the outcome of any pair of points is one the
\* crossover step can produce.
PairStarts == {i \in OffIdx : i % 2 = 0 /\ i + 1 < ratio_adjusted_pop_size}
PairedWith(i) == ratio_adjusted_pop_size - i - 1
SampleGenerators == {Generator(<<a, b>>) : a, b \in SamplePoints}

OffspringAre(off, i, r) == off[i] = r.offspring1 /\ off[PairedWith(i)] = r.offspring2

C16_SafeHalf ==
    pc = "mutate" =>
       \A i \in PairStarts :
          LET o1 == population_arr[parent_index_vec[i]]
              o2 == population_arr[parent_index_vec[PairedWith(i)]]
          IN  IF back(sorted_index_by_fitness_vec).second <= 10
              THEN OffspringAre(offspring_arr, i,
                                orderCrossover(o1, o2, duplicatesMap, map_of_tiles, random))
              ELSE \E g \in AllGenerators :
                      OffspringAre(offspring_arr, i, twoPointCrossover(o1, o2, g))

C16_PossibleHalf ==
    (pc = "select" /\ back(sorted_index_by_fitness_vec).second > 10) =>
       \A i \in PairStarts : \A g \in SampleGenerators :
          LET parents == selectParentsAndWorst(sorted_index_by_fitness_vec,
                                               ratio_adjusted_pop_size)[1]
              o1 == population_arr[parents[i]]
              o2 == population_arr[parents[PairedWith(i)]]
          IN  ENABLED (/\ SelectAndCrossover
                       /\ OffspringAre(offspring_arr', i, twoPointCrossover(o1, o2, g)))

C16_CrossoverByThreshold == C16_SafeHalf /\ C16_PossibleHalf

Range(f) == {f[x] : x \in DOMAIN f}

\* C17: selectParentsAndWorst returns eliteCount parent indices and eliteCount worst
\* indices, each set made of distinct indices of the population, and no index is
\* in both, since twice the elite count never exceeds the population size; for a
\* population of 100 the elite count is 26.
C17_ParentsAndWorstDisjoint ==
    pc = "selected" =>
       LET n == populationSizeOf(sorted_index_by_fitness_vec)
           parents == Range(parent_index_vec)
           worst == Range(worst_index_vec)
           eliteCount == Cardinality(DOMAIN parent_index_vec)
       IN  /\ Cardinality(DOMAIN worst_index_vec) = eliteCount
           /\ Cardinality(parents) = eliteCount
           /\ Cardinality(worst) = eliteCount
           /\ parents \subseteq 0 .. n - 1
           /\ worst \subseteq 0 .. n - 1
           /\ parents \cap worst = {}
           /\ 2 * eliteCount <= n
           /\ n = DefaultPopulationSize => eliteCount = 26

C17_Witness ==
    /\ pc = "selected"
    /\ populationSizeOf(sorted_index_by_fitness_vec) = DefaultPopulationSize
    /\ Cardinality(Range(parent_index_vec)) = 26
    /\ Cardinality(Range(worst_index_vec)) = 26
    /\ Range(parent_index_vec) \cap Range(worst_index_vec) = {}

\* C18 (as stated): the elite count is a quarter of the population size rounded to
\* the nearest integer, plus one if that is odd.
C18_EliteCountRounds ==
    pc = "selected" =>
       LET n == populationSizeOf(sorted_index_by_fitness_vec)
           nearest == CHOOSE r \in 0 .. n : 4 * r - 2 <= n /\ n < 4 * r + 2
       IN  Cardinality(DOMAIN parent_index_vec) = nearest + (nearest % 2)

\* C18 (amended): the elite count is a quarter of the population size truncated
\* toward zero, plus one if that is odd; it is always even.
C18_EliteCountTruncates ==
    pc = "selected" =>
       LET n == populationSizeOf(sorted_index_by_fitness_vec)
           truncated == CHOOSE t \in 0 .. n : 4 * t <= n /\ n < 4 * (t + 1)
           eliteCount == Cardinality(DOMAIN parent_index_vec)
       IN  /\ eliteCount = truncated + (truncated % 2)
           /\ eliteCount % 2 = 0

C18_Witness ==
    /\ pc = "selected"
    /\ populationSizeOf(sorted_index_by_fitness_vec) = 10
    /\ Cardinality(DOMAIN parent_index_vec) = 2

\* C19: in every generation that reaches selection, also one whose population was
\* just rewritten by a forced repopulation, no individual outside the selected
\* parents has fewer mismatches than a selected parent, and no individual outside
\* the selected worst has more mismatches than a selected worst, in the population
\* as it stands when the selection is made.
C19_SelectionFollowsPopulation ==
    pc = "mutate" =>
       LET count(i) == countEdgeMismatch(population_arr[i])
           parents == Range(parent_index_vec)
           worst == Range(worst_index_vec)
       IN  /\ Cardinality(parents) = ratio_adjusted_pop_size
           /\ Cardinality(worst) = ratio_adjusted_pop_size
           /\ \A p \in parents : \A q \in PopIdx \ parents : count(p) <= count(q)
           /\ \A w \in worst : \A q \in PopIdx \ worst : count(w) >= count(q)

\* C20: after generatePopulation every individual i >= 1 differs from individual 0,
\* the base arrangement, in at least 20 of the 64 tile positions, whatever the
\* population size and the generator.
DiffersFromBase(pop, i) == {j \in PuzzleIdx : pop[i][j] # pop[0][j]}

C20_SeededIndividualsDiffer ==
    pc = "seeded" =>
       \A i \in DOMAIN population_arr \ {0} :
          Cardinality(DiffersFromBase(population_arr, i)) >= 20

\* The decimal signature of tile t read from edge k onwards, and the cells of p
\* whose tile has the signature key in one of its four orientations.
RotKey(t, k) ==
    DigitChar[t[k % TILE_SIZE] + 1] \o DigitChar[t[(k + 1) % TILE_SIZE] + 1]
    \o DigitChar[t[(k + 2) % TILE_SIZE] + 1] \o DigitChar[t[(k + 3) % TILE_SIZE] + 1]
CellsOfKey(p, key) == {i \in PuzzleIdx : \E k \in TileIdx : RotKey(p[i], k) = key}

RECURSIVE SumOver(_, _)
SumOver(m, keys) ==
    IF keys = {} THEN 0
    ELSE LET k == CHOOSE x \in keys : TRUE IN m[k] + SumOver(m, keys \ {k})

\* C21: recordDuplicateTiles attributes each of the 64 tiles of the puzzle to exactly
\* one key: every key is an orientation of some tile and counts the cells whose tile
\* is a rotation of it, no cell belongs to two keys (no two keys are rotations of
\* each other), every cell belongs to a key (a class that occurs once has count 1),
\* and the counts sum to 64.
C21_EveryTileHasOneKey ==
    pc = "recorded" =>
       /\ \A key \in DOMAIN duplicatesMap :
             /\ CellsOfKey(puzzle, key) # {}
             /\ duplicatesMap[key] = Cardinality(CellsOfKey(puzzle, key))
       /\ \A k1, k2 \in DOMAIN duplicatesMap :
             k1 # k2 => CellsOfKey(puzzle, k1) \cap CellsOfKey(puzzle, k2) = {}
       /\ \A i \in PuzzleIdx : \E key \in DOMAIN duplicatesMap : i \in CellsOfKey(puzzle, key)
       /\ SumOver(duplicatesMap, DOMAIN duplicatesMap) = TILES_IN_PUZZLE_COUNT

\* A puzzle in which a class occurs once and another class occurs several times in
\* more than one orientation.
C21_Witness ==
    /\ pc = "recorded"
    /\ \E key \in DOMAIN duplicatesMap : duplicatesMap[key] = 1
    /\ \E key \in DOMAIN duplicatesMap :
          /\ duplicatesMap[key] > 1
          /\ \E i, j \in CellsOfKey(puzzle, key) : puzzle[i] # puzzle[j]

\* C22: when the input file cannot be opened, readInput ends with a runtime_error:
\* main never gets past it, no puzzle data is produced, and no population is
\* allocated or seeded.
C22_MissingFileAborts ==
    file = MissingFile =>
       /\ pc \in {"main", "runtime_error"}
       /\ puzzle = NotUsed
       /\ population_arr = NotUsed

\* The positions of the parent vector that crossover pairs: i even with size - 1 - i.
ParentPairsOf(size) == {{i, size - 1 - i} : i \in {j \in 0 .. size - 1 : j % 2 = 0 /\ j + 1 < size}}

\* The offspring pair of the parents at positions i and size - 1 - i.
PairResult(i) ==
    LET size == Cardinality(DOMAIN parent_index_vec)
        o1 == population_arr[parent_index_vec[i]]
        o2 == population_arr[parent_index_vec[size - 1 - i]]
    IN  IF min_edge_mismatch_count <= 10
        THEN orderCrossover(o1, o2, duplicatesMap, map_of_tiles, random)
        ELSE [offspring1 |-> o1, offspring2 |-> o2]

\* C23: crossover pairs parent i (i even) with parent eliteCount-1-i: every parent
\* is in exactly one pair, every slot of the offspring buffer holds the offspring
\* its own pair produced (slot i the first, slot eliteCount-1-i the second), and the
\* population is as it was before the call.
C23_CrossoverPairsAndFrame ==
    pc = "crossed" =>
       LET size == Cardinality(DOMAIN parent_index_vec)
       IN  /\ \A k \in 0 .. size - 1 :
                 Cardinality({pr \in ParentPairsOf(size) : k \in pr}) = 1
           /\ DOMAIN offspring_arr = 0 .. size - 1
           /\ \A i \in 0 .. size - 1 :
                 i % 2 = 0 =>
                    /\ offspring_arr[i] = PairResult(i).offspring1
                    /\ offspring_arr[size - 1 - i] = PairResult(i).offspring2
           /\ \A j \in 0 .. size - 1 : offspring_arr[j] # NotUsed
           /\ population_arr = [i \in CrossPopIdx |-> CrossPopulation[i + 1]]

C23_Witness ==
    /\ pc = "crossed"
    /\ Cardinality(DOMAIN parent_index_vec) = MaxParents
    /\ min_edge_mismatch_count <= 10
    /\ \A j \in DOMAIN offspring_arr :
          offspring_arr[j] \notin {population_arr[i] : i \in CrossPopIdx}

RepopulationTiers == {stagnation_threshold, stagnation_threshold * 10, stagnation_threshold * 100}

\* C24: the replacement step copies offspring i into population slot worst[i] for
\* every i and leaves every other slot as it was; evaluation, selection, crossover
\* and mutation leave the whole population as it was, and so does the stagnation
\* step of a generation without forced repopulation.  Hence in such a generation
\* every slot outside the worst indices ends as it started.
C24_ReplacementFrame ==
    [][/\ pc = "replace" =>
             /\ \A i \in DOMAIN worst_index_vec :
                   population_arr'[worst_index_vec[i]] = offspring_arr[i]
             /\ \A k \in PopIdx \ Range(worst_index_vec) :
                   population_arr'[k] = population_arr[k]
       /\ pc \in {"loop", "select", "mutate"} => population_arr' = population_arr
       /\ (pc = "stagnation" /\ stagnated_generation_count + 1 \notin RepopulationTiers)
             => population_arr' = population_arr]_vars

\* A generation has been completed: the offspring, changed by mutation, are in the
\* population and the other slots hold something else.
C24_Witness ==
    /\ pc = "loop"
    /\ generations_performed = 2
    /\ Cardinality({k \in PopIdx : population_arr[k] \in Range(offspring_arr)})
          = ratio_adjusted_pop_size
    /\ Cardinality(Range(offspring_arr)) = ratio_adjusted_pop_size

\* The n cells of p read circularly from cell start, as a sequence.
CircularRead(p, start, n) == [k \in 1 .. n |-> p[(start + k - 1) % TILES_IN_PUZZLE_COUNT]]

\* r is a subsequence of q: its elements occur in q in the same order.  The first
\* i elements of r are matched into q as early as possible.
RECURSIVE MatchedInto(_, _, _, _)
MatchedInto(r, q, i, j) ==
    IF i > Len(r) THEN TRUE
    ELSE IF j > Len(q) THEN FALSE
    ELSE IF r[i] = q[j] THEN MatchedInto(r, q, i + 1, j + 1)
    ELSE MatchedInto(r, q, i, j + 1)
IsSubsequence(r, q) == MatchedInto(r, q, 1, 1)

\* C25: after orderCrossover with points c1 <= c2, offspring2 holds parent1's tiles
\* and offspring1 holds parent2's tiles, orientation included, in the cells c1..c2-1
\* of the inherited segment; the other 64-(c2-c1) cells of offspring2, read
\* circularly from c2, are a subsequence of parent2 read circularly from c2, and
\* those of offspring1 are a subsequence of parent1 read in the same way.
C25_SegmentAndOrderedFill ==
    (calls = 1 /\ pc = "ok") =>
       LET c1 == points[1][1]
           c2 == points[1][2]
           rest == TILES_IN_PUZZLE_COUNT - (c2 - c1)
       IN  /\ c1 <= c2
           /\ \A i \in c1 .. c2 - 1 : offspring2[i] = parent1[i] /\ offspring1[i] = parent2[i]
           /\ IsSubsequence(CircularRead(offspring2, c2, rest),
                            CircularRead(parent2, c2, TILES_IN_PUZZLE_COUNT))
           /\ IsSubsequence(CircularRead(offspring1, c2, rest),
                            CircularRead(parent1, c2, TILES_IN_PUZZLE_COUNT))

\* A crossover whose segment is not empty, differs between the parents, and whose
\* fill skipped tiles of parent2 and of parent1.
C25_Witness ==
    /\ calls = 1 /\ pc = "ok"
    /\ points[1][1] + 1 < points[1][2]
    /\ \E i \in points[1][1] .. points[1][2] - 1 : parent1[i] # parent2[i]
    /\ CircularRead(offspring2, points[1][2], TILES_IN_PUZZLE_COUNT - (points[1][2] - points[1][1]))
          # CircularRead(parent2, points[1][2], TILES_IN_PUZZLE_COUNT - (points[1][2] - points[1][1]))
    /\ \E i \in PuzzleIdx : (i < points[1][1] \/ i >= points[1][2]) /\ offspring1[i] # parent1[i]

\* The call whose outcome the state holds, made again on the same parents and points.
SameCall == orderCrossover(parent1, parent2, duplicatesMap, map_of_tiles, Generator(points[1]))

\* The number of tiles of p per key of duplicatesMap, each tile being looked up
\* through map_of_tiles as orderCrossover does.
KeyCounts(p) ==
    LET Step(bag, i) ==
            LET key == map_of_tiles[convertTileToString(p[i])]
            IN  (key :> (IF key \in DOMAIN bag THEN bag[key] ELSE 0) + 1) @@ bag
    IN  ForLoop(Step, <<>>, 0, TILES_IN_PUZZLE_COUNT)

WithinCounts(bag) == \A key \in DOMAIN bag : key \in DOMAIN duplicatesMap /\ bag[key] <= duplicatesMap[key]

FillOutcome(r, rest) ==
    /\ r.offspring1 = offspring1 /\ r.offspring2 = offspring2
    /\ r.placed = <<rest, rest>>
    /\ rest <= r.scanned[1] /\ r.scanned[1] <= TILES_IN_PUZZLE_COUNT
    /\ rest <= r.scanned[2] /\ r.scanned[2] <= TILES_IN_PUZZLE_COUNT

\* C26: when both parents hold the tiles of the input puzzle, each of the two fill
\* loops of orderCrossover ends, having placed exactly 64 - (c2 - c1) tiles after
\* scanning at most 64 cells of its parent, and neither offspring holds more tiles
\* of a class than duplicatesMap counts for it.
C26_FillEndsWithinOneScan ==
    calls = 1 =>
       /\ pc = "ok"
       /\ FillOutcome(SameCall, TILES_IN_PUZZLE_COUNT - (points[1][2] - points[1][1]))
       /\ WithinCounts(KeyCounts(offspring1))
       /\ WithinCounts(KeyCounts(offspring2))

SkippedCells(r) ==
    /\ r.offspring2 = offspring2
    /\ r.placed[1] < r.scanned[1]
    /\ r.placed[2] < r.scanned[2]
    /\ r.placed[2] < TILES_IN_PUZZLE_COUNT

\* A call in which both loops skipped cells: more cells scanned than tiles placed.
C26_Witness == calls = 1 /\ pc = "ok" /\ SkippedCells(SameCall)

\* n mutation steps on puzzle p with generator g: an even step exchanges the two
\* cells a swap draws from g (g itself is not advanced), an odd step turns the tile
\* of a drawn cell one edge to the left.
RECURSIVE AlternateSteps(_, _, _, _)
AlternateSteps(p, g, j, n) ==
    IF j >= n THEN [puz |-> p, g |-> g]
    ELSE IF j % 2 = 0
    THEN LET a == swapIndices(g)[1]
             b == swapIndices(g)[2]
         IN  AlternateSteps([p EXCEPT ![a] = p[b], ![b] = p[a]], g, j + 1, n)
    ELSE LET c == draw(g)
         IN  AlternateSteps([p EXCEPT ![c] = [e \in TileIdx |-> p[c][(e + 1) % TILE_SIZE]]],
                            advance(g), j + 1, n)

\* Offspring i, i+1, ... of after are those of before after some number of steps
\* below rate each, the generator passing from one offspring to the next.
RECURSIVE MutatedWithin(_, _, _, _, _)
MutatedWithin(before, after, i, g, rate) ==
    \/ i \notin DOMAIN before
    \/ \E n \in 0 .. rate - 1 :
          /\ n = draw(g) % rate
          /\ after[i] = AlternateSteps(before[i], advance(g), 0, n).puz
          /\ MutatedWithin(before, after, i + 1, AlternateSteps(before[i], advance(g), 0, n).g, rate)

RateOfBest(b) == Max(3, (MAX_MUTATION_RATE * b) \div MAX_MISMATCH)

\* C27: the mutation rate passed to mutate is between 3 and 32 and is
\* max(3, floor(32 * b / 112)) for the best mismatch count b of the generation just
\* evaluated; mutate applies to each offspring a number of steps between 0 and
\* mutationRate - 1, even steps being swaps and odd steps rotations of one tile.
C27_MutationRateAndSteps ==
    /\ \A b \in 0 .. MAX_MISMATCH - 1 : mutation_rate_lut[b] = RateOfBest(b)
    /\ [](pc = "mutate" =>
            /\ mutation_rate \in 3 .. MAX_MUTATION_RATE
            /\ mutation_rate = RateOfBest(back(sorted_index_by_fitness_vec).second))
    /\ [][pc = "mutate" =>
            /\ pc' = "replace"
            /\ MutatedWithin(offspring_arr, offspring_arr', 0, random, mutation_rate)]_vars

\* C28: whenever evolve is about to read the mutation-rate table (the best count of
\* the generation just evaluated differs from that of the generation before), the
\* index, that best count, is inside the table: 0..111, never 112.
C28_TableIndexInBounds ==
    (pc = "stagnation"
       /\ back(sorted_index_by_fitness_vec).second # last_gen_best_edge_mismatch)
    => back(sorted_index_by_fitness_vec).second \in 0 .. MAX_MISMATCH - 1

\* The puzzle after the steps j = from .. 31 of one individual's perturbation when
\* every swap exchanges the cells a and b: exchange, then turn the tile of cell j.
RECURSIVE SamePairPerturbed(_, _, _, _)
SamePairPerturbed(p, a, b, from) ==
    IF from >= TILES_IN_PUZZLE_COUNT \div 2 THEN p
    ELSE LET swapped == [p EXCEPT ![a] = p[b], ![b] = p[a]]
         IN  SamePairPerturbed(
                 [swapped EXCEPT ![from] = [e \in TileIdx |-> swapped[from][(e + 1) % TILE_SIZE]]],
                 a, b, from + 1)

IsRotationOf(t, u) == \E k \in TileIdx : rotateTimes(t, k) = u
FirstCellOfClass(p, i) ==
    CHOOSE j \in 0 .. i :
       /\ IsRotationOf(p[j], p[i])
       /\ \A h \in 0 .. j - 1 : ~IsRotationOf(p[h], p[i])

\* C30: the two maps agree on canonical keys.  For every tile of the puzzle and each
\* of its 4 rotations, map_of_tiles holds the rotation's signature and maps it to a
\* key of duplicatesMap, namely the signature of the first-seen orientation of the
\* tile's rotation class; and orderCrossover, called with these maps on arrangements
\* of the puzzle's tiles, never ends on a missing key.
C30_MapsAgreeOnCanonicalKeys ==
    /\ pc \notin {"unit", "mapped"} =>
          \A i \in PuzzleIdx : \A k \in TileIdx :
             /\ RotKey(puzzle[i], k) \in DOMAIN map_of_tiles
             /\ map_of_tiles[RotKey(puzzle[i], k)] \in DOMAIN duplicatesMap
             /\ map_of_tiles[RotKey(puzzle[i], k)]
                   = RotKey(puzzle[FirstCellOfClass(puzzle, i)], 0)
    /\ pc # "abort"

\* orderCrossover has filled all 64 cells of both offspring through the lookups, for
\* a puzzle that holds a tile in an orientation other than its canonical one.
C30_Witness ==
    /\ pc = "ok"
    /\ points = << <<20, 20>> >>
    /\ \E i \in PuzzleIdx :
          /\ map_of_tiles[RotKey(puzzle[i], 0)] # RotKey(puzzle[i], 0)
          /\ map_of_tiles[RotKey(puzzle[i], 0)] \in DOMAIN duplicatesMap

====
